---- MODULE Spec2Model ----
(***************************************************************************)
(* Verification model of the antigravity-wrapper proxy.                    *)
(*                                                                         *)
(* The module holds these state machines:                                   *)
(*   SpecClaude  - handleStreamingClaude driving the Anthropic streaming   *)
(*                 translator ConvertAntigravityResponseToClaude;          *)
(*   SpecOpenAI  - handleStreamingOpenAI / handleStreamingResponses        *)
(*                 driving ConvertAntigravityResponseToOpenAI;             *)
(*   SpecPool    - AccountManager.Load and concurrent AccountManager.Next; *)
(*   SpecIngress - the gin handler chain built by NewServer/setupRoutes;   *)
(*   SpecKeys    - KeyStore.Generate / Revoke behind the admin handlers,   *)
(*                 interleaved with client requests through that chain;    *)
(*   SpecExec    - Executor.Execute / ExecuteStream: token, base-URL       *)
(*                 fallback, and the status the handler answers with.      *)
(*   SpecToken   - Credentials.IsExpired and TokenManager.RefreshToken     *)
(*                 against a clock and the credential store;               *)
(*   SpecShare   - concurrent handlers and the Credentials object that     *)
(*                 getNextCredentials hands each of them;                  *)
(*   SpecThink   - the thinking budget from the request body through the   *)
(*                 translators, default injection and transformPayload;    *)
(*   SpecStream  - ExecuteStream's reader goroutine and the handler loop   *)
(*                 (SpecStreamFair adds the scheduling assumptions);       *)
(*   SpecReq     - tool calls and tool results through the two request     *)
(*                 translators;                                            *)
(*   SpecUsage   - the usage block of the streaming and the non-streaming  *)
(*                 OpenAI response translators;                            *)
(*   SpecDoc     - content[] of the non-streaming Anthropic translator;    *)
(*   SpecDelta   - text and tool call indexes of an OpenAI stream, chunk   *)
(*                 by chunk;                                               *)
(*   SpecFilter  - FilterSSEUsageMetadata on one line of the reader;       *)
(*   SpecRefresh - AccountManager.Next and token refresh over time.        *)
(* Each specification moves its own variables and leaves the others at     *)
(* their initial value.                                                    *)
(***************************************************************************)
EXTENDS Integers, Sequences, FiniteSets, TLC

\* ------------------------------------------------------------------------
\* Bounds of the model
\* ------------------------------------------------------------------------
\* upstream data chunks one streaming request receives
MaxChunks == 2
\* parts in response.candidates.0.content.parts of one chunk
MaxParts == 2
\* accounts in accounts.json
MaxAccounts == 3
\* calls of AccountManager.Next
MaxCalls == 4
\* request handlers running concurrently
NumHandlers == 2
\* largest rate limit configured, globally or for a key
MaxRateLimit == 1
\* requests served by the engine
MaxRequests == 2
\* minutes the clock of the token model runs
MaxTime == 3
\* lines of one upstream response body
MaxLines == 2
\* tool calls of one assistant message
MaxToolCalls == 2

VARIABLES
    \* --- Anthropic streaming request (handleStreamingClaude) ---
    claudePc,       \* "init" | "streaming" | "parts" | "done" | "failed"
    claudeState,    \* the *ClaudeStreamState of the request
    claudeChunk,    \* the chunk being converted and the parts still to loop over
    claudeOut,      \* the translator's local `output` for that chunk
    claudeWire,     \* events of the handler's last write to the client
    claudeLog,      \* summary of every event written before those
    claudeSeen,     \* what the upstream has sent so far (input history)
    claudeN,        \* data chunks received so far
    claudeStatus    \* HTTP status of the response (0: not yet decided)

VARIABLES
    \* --- OpenAI streaming request (handleStreamingOpenAI/-Responses) ---
    openaiRoute,    \* "chat" (chat completions) | "responses"
    openaiPc,       \* "init" | "streaming" | "parts" | "done" | "failed"
    openaiState,    \* the *OpenAIStreamState of the request
    openaiChunk,    \* the chunk being converted and the parts still to loop over
    openaiOut,      \* the translator's `template` and hasFunctionCall
    openaiWire,     \* lines of the handler's last write to the client
    openaiLog,      \* summary of every line written before those
    openaiSeen,     \* what the upstream has sent so far (input history)
    openaiN,        \* data chunks received so far
    openaiStatus    \* HTTP status of the response (0: not yet decided)

claudeVars == <<claudePc, claudeState, claudeChunk, claudeOut, claudeWire,
                claudeLog, claudeSeen, claudeN, claudeStatus>>

openaiVars == <<openaiRoute, openaiPc, openaiState, openaiChunk, openaiOut,
                openaiWire, openaiLog, openaiSeen, openaiN, openaiStatus>>

VARIABLES
    \* --- account pool (AccountManager) ---
    poolFile,       \* accounts.json: number of accounts and current_index
    poolLoaded,     \* "no" | "yes" | "failed": outcome of AccountManager.Load
    accounts,       \* AccountManager.accounts
    currentIndex,   \* AccountManager.currentIndex
    mu,             \* AccountManager.mu: 0 when free, else the handler holding it
    nextPc,         \* per handler: its position in AccountManager.Next
    nextAccount,    \* per handler: the local `account` of its call (0: none)
    served,         \* per account: credentials returned by Next so far
    reads,          \* the cursor values the calls read, in order
    cursor0         \* the cursor when Load returned

poolVars == <<poolFile, poolLoaded, accounts, currentIndex, mu, nextPc,
              nextAccount, served, reads, cursor0>>

VARIABLES
    \* --- ingress (gin engine built by NewServer and setupRoutes) ---
    cfg,            \* config.Config: APIKeys, RateLimit, DataDir set or not
    keyStore,       \* Server.keyStore: whether there is one, and its keys
    limiters,       \* Server.limiters: key or client IP -> token bucket
    hasCreds,       \* Server.hasCredentials()
    ingReq,         \* the last request served
    ingResp,        \* its response: status, error type, the layer that wrote it
    ingRan,         \* whether its endpoint handler ran
    ingUpstream,    \* whether an upstream call was made for it
    ingN,           \* requests served so far
    ingStreak       \* whose requests reached a handler since time last
                    \* passed, and how many in a row

ingressVars == <<cfg, keyStore, limiters, hasCreds, ingReq, ingResp, ingRan,
                 ingUpstream, ingN, ingStreak>>

VARIABLES
    \* --- key store (auth.KeyStore and the admin handlers that call it) ---
    masterSecret,   \* config.Config.MasterSecret
    keysFile,       \* api_keys.json as last written by KeyStore.save
    issued,         \* keys a successful Generate returned, not revoked since
    revoked,        \* keys a successful Revoke removed
    keyOp           \* the last operation: which, its inputs and its outcome

keysVars == <<masterSecret, keysFile, issued, revoked, keyOp>>

VARIABLES
    \* --- executor (Execute, ExecuteStream and the handler that calls them) ---
    execStream,     \* whether the request streams (ExecuteStream) or not
    execCreds,      \* the credential passed in, as the token manager leaves it
    execPc,         \* "start", "loop", "returned", "responded"
    execRefresh,    \* what the token refresh did: "" when none was tried
    execToken,      \* the token ensureAccessToken returned
    execIdx,        \* idx of the loop over baseURLs
    execAttempts,   \* the requests sent upstream and how each ended
    execResult,     \* what Execute or ExecuteStream returned
    clientStatus    \* the status the handler answered the client with

execVars == <<execStream, execCreds, execPc, execRefresh, execToken, execIdx,
              execAttempts, execResult, clientStatus>>

VARIABLES
    \* --- token refresh (Credentials.IsExpired, TokenManager, Store) ---
    tokNow,         \* time.Now(), in minutes
    tokCreds,       \* the credential the server holds
    tokFile,        \* the credential file as Store.Save last wrote it
    tokLast         \* the last call of ensureAccessToken and what it did

tokenVars == <<tokNow, tokCreds, tokFile, tokLast>>

VARIABLES
    \* --- credentials shared between concurrent requests ---
    shareMode,      \* "pool" (accountManager set) or "single"
    shareObjs,      \* the Credentials objects: 0 is Server.credentials, h
                    \* the copy AccountManager.Next made for handler h
    sharePc,        \* where each handler stands in its request
    shareRef        \* the object each handler's creds pointer refers to

shareVars == <<shareMode, shareObjs, sharePc, shareRef>>

VARIABLES
    \* --- thinking budget of one request, from the body to the upstream ---
    thinkReq,       \* the client's request: api, model and thinking fields
    thinkPc,        \* "received", "handled" (payload built by the handler)
                    \* or "sent" (payload transformed by the executor)
    thinkPayload    \* request.generationConfig of the payload

thinkVars == <<thinkReq, thinkPc, thinkPayload>>

VARIABLES
    \* --- one streaming request: the reader goroutine and the handler ---
    streamBody,       \* what the upstream body holds: its lines and its end
    streamCancelled,  \* the request context is cancelled (client gone)
    readerPc,         \* reader goroutine: "scan", "send", "sendErr",
                      \* "close", "done"
    readerPos,        \* lines the scanner has returned
    readerChunk,      \* the StreamChunk the reader is sending
    chanClosed,       \* how many times close(out) ran
    handlerPc,        \* handler: "recv", "write", "final", "returned"
    handlerGot        \* the chunks the handler received, in order

streamVars == <<streamBody, streamCancelled, readerPc, readerPos, readerChunk,
                chanClosed, handlerPc, handlerGot>>

VARIABLES
    \* --- one request body through a request translator ---
    reqApi,         \* "claude" (/v1/messages) or "openai" (chat completions)
    reqTurn,        \* the assistant turn of the body and the tool results
    reqPc,          \* "received" or "translated"
    reqContents     \* request.contents of the payload

reqVars == <<reqApi, reqTurn, reqPc, reqContents>>

VARIABLES
    \* --- one usageMetadata through both OpenAI response translators ---
    usageMeta,      \* response.usageMetadata: <<>> when absent
    usageDone,      \* the translators that have run: "stream", "nonstream"
    usageStream,    \* usage of the streaming chunk
    usageNonStream  \* usage of the non-streaming document

usageVars == <<usageMeta, usageDone, usageStream, usageNonStream>>

VARIABLES
    \* --- one non-streaming Anthropic response ---
    docParts,       \* response.candidates.0.content.parts of the upstream
    docPc,          \* "received" or "converted"
    docContent      \* content[] of the Anthropic document

docVars == <<docParts, docPc, docContent>>

VARIABLES
    \* --- the deltas of one OpenAI stream, chunk by chunk ---
    deltaState,     \* the OpenAIStreamState of the stream
    deltaN,         \* upstream chunks translated
    deltaUp,        \* text of the upstream parts so far, by kind
    deltaOut,       \* text of the emitted deltas so far, by field
    deltaIndexes,   \* "index" of the emitted tool_calls entries, in order
    deltaLine       \* the chunk written last

deltaVars == <<deltaState, deltaN, deltaUp, deltaOut, deltaIndexes,
               deltaLine>>

VARIABLES
    \* --- one line of the upstream body through the reader's filter ---
    filterLine,     \* the line scanner.Bytes() returned
    filterPc,       \* "scanned", "published" or "skipped"
    filterChunk     \* Data of the StreamChunk sent on the channel

filterVars == <<filterLine, filterPc, filterChunk>>

VARIABLES
    \* --- the account pool and the tokens refreshed for its accounts ---
    rfAccounts,     \* AccountManager.accounts, as loaded from accounts.json
    rfIndex,        \* AccountManager.currentIndex
    rfNow,          \* the clock, in minutes
    rfPc,           \* "idle" or "selected": a request holds a credential
    rfAccount,      \* index of the account selected last
    rfCreds,        \* the Credentials object Next returned last
    rfIssued,       \* per account: <<>> or the credentials as last refreshed
    rfNeedless      \* a refresh was called while the issued token was valid

rfVars == <<rfAccounts, rfIndex, rfNow, rfPc, rfAccount, rfCreds, rfIssued,
            rfNeedless>>

vars == <<claudeVars, openaiVars, poolVars, ingressVars, keysVars, execVars
         , tokenVars, shareVars, thinkVars, streamVars, reqVars, usageVars
         , docVars, deltaVars, filterVars, rfVars>>

\* ------------------------------------------------------------------------
\* Upstream chunks (shared by both response translators)
\* ------------------------------------------------------------------------
\* One element of response.candidates.0.content.parts, by the fields the
\* translators read: text (Exists / String), thought (Bool),
\* thoughtSignature (non-empty), functionCall (Exists), functionCall.args
\* (Exists), inlineData (with data).
MkPart(hasText, text, thought, sig, hasFC, args, inline) ==
    [hasText |-> hasText, text |-> text, thought |-> thought, sig |-> sig,
     hasFC |-> hasFC, args |-> args, inline |-> inline]

PartText       == MkPart(TRUE,  "t", FALSE, FALSE, FALSE, FALSE, FALSE)
PartEmptyText  == MkPart(TRUE,  "",  FALSE, FALSE, FALSE, FALSE, FALSE)
PartThought    == MkPart(TRUE,  "t", TRUE,  FALSE, FALSE, FALSE, FALSE)
PartSignature  == MkPart(TRUE,  "",  TRUE,  TRUE,  FALSE, FALSE, FALSE)
PartCall       == MkPart(FALSE, "",  FALSE, FALSE, TRUE,  TRUE,  FALSE)
PartCallNoArgs == MkPart(FALSE, "",  FALSE, FALSE, TRUE,  FALSE, FALSE)
PartInline     == MkPart(FALSE, "",  FALSE, FALSE, FALSE, FALSE, TRUE)
\* a part that holds nothing but a thoughtSignature
PartSigOnly    == MkPart(FALSE, "",  FALSE, TRUE,  FALSE, FALSE, FALSE)

Parts == {PartText, PartEmptyText, PartThought, PartSignature, PartCall,
          PartCallNoArgs, PartInline, PartSigOnly}

\* the values of response.candidates.0.finishReason (glossary of the spec)
FinishReasons == {"STOP", "MAX_TOKENS", "UNKNOWN", "FINISH_REASON_UNSPECIFIED"}

\* One upstream line without its parts: finishReason (present or not),
\* whether it carries response.usageMetadata, and the length of
\* response.candidates.0.content.parts. The parts themselves are drawn one
\* by one as the translator's loop reaches them.
MkChunk(hasFin, fin, usage, nParts) ==
    [hasFin |-> hasFin, fin |-> fin, usage |-> usage, left |-> nParts]

UpstreamChunks ==
    {MkChunk(FALSE, "", u, n) : u \in BOOLEAN, n \in 0..MaxParts}
    \cup {MkChunk(TRUE, f, u, n) : f \in FinishReasons, u \in BOOLEAN,
                                   n \in 0..MaxParts}

NoChunk == MkChunk(FALSE, "", FALSE, 0)

\* StripUsageMetadataFromJSON: usageMetadata is dropped unless finishReason
\* is present and non-empty.
StripUsageMetadataFromJSON(chunk) ==
    IF chunk.hasFin /\ chunk.fin # "" THEN chunk
    ELSE [chunk EXCEPT !.usage = FALSE]

\* FilterSSEUsageMetadata as ExecuteStream applies it to one scanner line.
FilterSSEUsageMetadata(chunk) == StripUsageMetadataFromJSON(chunk)

\* a part the translators take for a function call
IsCall(part) == part.hasFC /\ ~part.hasText

\* ------------------------------------------------------------------------
\* Anthropic streaming translator (internal/translator/claude_response.go)
\* ------------------------------------------------------------------------
\* ClaudeStreamState; the usage counters are left out: no event's kind,
\* index or stop_reason depends on them.
ClaudeStreamState0 ==
    [HasFirstResponse   |-> FALSE,
     ResponseType       |-> 0,      \* 0=none, 1=content, 2=thinking, 3=function
     ResponseIndex      |-> 0,
     HasFinishReason    |-> FALSE,
     FinishReason       |-> "",
     HasUsageMetadata   |-> FALSE,
     HasSentFinalEvents |-> FALSE,
     HasToolUse         |-> FALSE,
     HasContent         |-> FALSE]

\* One SSE event: its name, the "index" it carries (-1: none) and its
\* argument (block type, delta type or stop_reason).
Ev(name, index, arg) == [ev |-> name, index |-> index, arg |-> arg]

BlockStop(i)       == Ev("content_block_stop", i, "")
BlockStart(i, typ) == Ev("content_block_start", i, typ)
BlockDelta(i, typ) == Ev("content_block_delta", i, typ)

\* The accumulator of one translator call: the state and the output string.
Acc(st, out) == [st |-> st, out |-> out]

\* lines 89-94, 113-118, 144-149: close the block the state believes open
CloseIfOpen(acc) ==
    IF acc.st.ResponseType # 0
    THEN Acc([acc.st EXCEPT !.ResponseIndex = @ + 1],
             Append(acc.out, BlockStop(acc.st.ResponseIndex)))
    ELSE acc

\* lines 77-103: a text part with thought = true
ClaudeThoughtPart(acc, part) ==
    LET s == acc.st IN
    IF part.sig
    THEN Acc([s EXCEPT !.HasContent = TRUE],
             Append(acc.out, BlockDelta(s.ResponseIndex, "signature_delta")))
    ELSE IF s.ResponseType = 2
    THEN Acc([s EXCEPT !.HasContent = TRUE],
             Append(acc.out, BlockDelta(s.ResponseIndex, "thinking_delta")))
    ELSE LET c == CloseIfOpen(acc)
             i == c.st.ResponseIndex
         IN Acc([c.st EXCEPT !.ResponseType = 2, !.HasContent = TRUE],
                c.out \o <<BlockStart(i, "thinking"),
                           BlockDelta(i, "thinking_delta")>>)

\* lines 104-131: a text part with thought = false; hasFin is whether the
\* chunk carries response.candidates.0.finishReason
ClaudeTextPart(acc, part, hasFin) ==
    LET s == acc.st IN
    IF part.text # "" \/ ~hasFin
    THEN IF s.ResponseType = 1
         THEN Acc([s EXCEPT !.HasContent = TRUE],
                  Append(acc.out, BlockDelta(s.ResponseIndex, "text_delta")))
         ELSE LET c == CloseIfOpen(acc)
                  i == c.st.ResponseIndex
              IN IF part.text # ""
                 THEN Acc([c.st EXCEPT !.ResponseType = 1, !.HasContent = TRUE],
                          c.out \o <<BlockStart(i, "text"),
                                     BlockDelta(i, "text_delta")>>)
                 ELSE c
    ELSE acc

\* lines 132-164: a functionCall part
ClaudeCallPart(acc, part) ==
    LET s0 == [acc.st EXCEPT !.HasToolUse = TRUE]
        a1 == IF s0.ResponseType = 3
              THEN Acc([s0 EXCEPT !.ResponseIndex = @ + 1, !.ResponseType = 0],
                       Append(acc.out, BlockStop(s0.ResponseIndex)))
              ELSE Acc(s0, acc.out)
        a2 == CloseIfOpen(a1)
        i  == a2.st.ResponseIndex
        d  == IF part.args THEN <<BlockDelta(i, "input_json_delta")>> ELSE <<>>
    IN Acc([a2.st EXCEPT !.ResponseType = 3, !.HasContent = TRUE],
           a2.out \o <<BlockStart(i, "tool_use")>> \o d)

\* lines 70-165: the body of the loop over the parts
ClaudePart(acc, part, hasFin) ==
    IF part.hasText
    THEN IF part.thought THEN ClaudeThoughtPart(acc, part)
                         ELSE ClaudeTextPart(acc, part, hasFin)
    ELSE IF part.hasFC THEN ClaudeCallPart(acc, part)
    ELSE acc

\* A stop_reason nothing in the code returns: the mutant of
\* resolveClaudeStopReason that forgets HasToolUse.
ResolveIgnoringToolUse(st) ==
    IF st.FinishReason = "MAX_TOKENS" THEN "max_tokens" ELSE "end_turn"

\* resolveClaudeStopReason
resolveClaudeStopReason(st) ==
    IF st.HasToolUse THEN "tool_use"
    ELSE IF st.FinishReason = "MAX_TOKENS" THEN "max_tokens"
    ELSE IF st.FinishReason \in {"STOP", "FINISH_REASON_UNSPECIFIED", "UNKNOWN"}
         THEN "end_turn"
    ELSE "end_turn"

\* appendClaudeFinalEvents
appendClaudeFinalEvents(acc, force) ==
    LET s == acc.st IN
    IF s.HasSentFinalEvents THEN acc
    ELSE IF ~s.HasUsageMetadata /\ ~force THEN acc
    ELSE IF ~s.HasContent THEN acc
    ELSE LET c == IF s.ResponseType # 0
                  THEN Acc([s EXCEPT !.ResponseType = 0],
                           Append(acc.out, BlockStop(s.ResponseIndex)))
                  ELSE acc
         IN Acc([c.st EXCEPT !.HasSentFinalEvents = TRUE],
                Append(c.out, Ev("message_delta", -1,
                                 resolveClaudeStopReason(c.st))))

\* The [DONE] branch without its HasContent test (mutant).
ClaudeDoneAlways(st) ==
    LET a == appendClaudeFinalEvents(Acc(st, <<>>), TRUE)
    IN Acc(a.st, Append(a.out, Ev("message_stop", -1, "")))

\* ConvertAntigravityResponseToClaude with rawJSON = "[DONE]" (lines 40-47)
ClaudeDone(st) ==
    IF st.HasContent
    THEN LET a == appendClaudeFinalEvents(Acc(st, <<>>), TRUE)
         IN Acc(a.st, Append(a.out, Ev("message_stop", -1, "")))
    ELSE Acc(st, <<>>)

\* ConvertAntigravityResponseToClaude on a data chunk, up to the loop over
\* the parts (lines 49-64): message_start on the first chunk
ClaudeChunkStart(st) ==
    IF ~st.HasFirstResponse
    THEN Acc([st EXCEPT !.HasFirstResponse = TRUE],
             <<Ev("message_start", -1, "")>>)
    ELSE Acc(st, <<>>)

\* ConvertAntigravityResponseToClaude after the loop over the parts
\* (lines 168-191): finishReason and usageMetadata are recorded and the
\* final events appended
ClaudeChunkFinish(acc, chunk) ==
    LET s2 == IF chunk.hasFin
              THEN [acc.st EXCEPT !.HasFinishReason = TRUE,
                                  !.FinishReason = chunk.fin]
              ELSE acc.st
        s3 == IF chunk.usage THEN [s2 EXCEPT !.HasUsageMetadata = TRUE] ELSE s2
        a3 == Acc(s3, acc.out)
    IN IF s3.HasUsageMetadata /\ s3.HasFinishReason
       THEN appendClaudeFinalEvents(a3, FALSE)
       ELSE a3

\* ------------------------------------------------------------------------
\* What the client has received (observer of the Anthropic event stream)
\* ------------------------------------------------------------------------
\* nStart: content_block_start events so far; open: the blocks started and
\* not yet stopped; content: some content_block_start or content_block_delta
\* was written; last: name of the last event written.
ClientLog0 ==
    [nStart |-> 0, open |-> {}, nMessageDelta |-> 0, nMessageStop |-> 0,
     content |-> FALSE, last |-> ""]

Absorb(h, e) ==
    LET h1 == [h EXCEPT !.last = e.ev] IN
    CASE e.ev = "content_block_start" ->
            [h1 EXCEPT !.nStart = @ + 1,
                       !.open = @ \cup {[index |-> e.index, kind |-> e.arg]},
                       !.content = TRUE]
      [] e.ev = "content_block_delta" -> [h1 EXCEPT !.content = TRUE]
      [] e.ev = "content_block_stop" ->
            [h1 EXCEPT !.open = {o \in @ : o.index # e.index}]
      [] e.ev = "message_delta" -> [h1 EXCEPT !.nMessageDelta = @ + 1]
      [] e.ev = "message_stop"  -> [h1 EXCEPT !.nMessageStop = @ + 1]
      [] OTHER -> h1

RECURSIVE AbsorbAll(_, _)
AbsorbAll(h, es) ==
    IF es = <<>> THEN h ELSE AbsorbAll(Absorb(h, Head(es)), Tail(es))

\* the client's view just before the k-th event of the last write, and
\* after all of it
ClaudeBefore(k) == AbsorbAll(claudeLog, SubSeq(claudeWire, 1, k - 1))
ClaudeAfter     == AbsorbAll(claudeLog, claudeWire)

\* ------------------------------------------------------------------------
\* handleStreamingClaude (internal/api/server.go, lines 454-500)
\* ------------------------------------------------------------------------
ClaudeSeen0 == [call |-> FALSE, fin |-> "", end |-> ""]

ClaudeInit ==
    /\ claudePc = "init"
    /\ claudeState = ClaudeStreamState0
    /\ claudeChunk = NoChunk
    /\ claudeOut = <<>>
    /\ claudeWire = <<>>
    /\ claudeLog = ClientLog0
    /\ claudeSeen = ClaudeSeen0
    /\ claudeN = 0
    /\ claudeStatus = 0

\* ExecuteStream returned an error: a JSON error body, no event stream
ClaudeOpenFail ==
    /\ claudePc = "init"
    /\ claudePc' = "failed"
    /\ claudeStatus' = 500
    /\ UNCHANGED <<claudeState, claudeChunk, claudeOut, claudeWire, claudeLog,
                   claudeSeen, claudeN>>

\* ExecuteStream returned the channel: the SSE headers are set and a fresh
\* ClaudeStreamState is made
ClaudeOpen ==
    /\ claudePc = "init"
    /\ claudePc' = "streaming"
    /\ claudeStatus' = 200
    /\ UNCHANGED <<claudeState, claudeChunk, claudeOut, claudeWire, claudeLog,
                   claudeSeen, claudeN>>

\* `for chunk := range streamChan` delivers a data chunk (the reader has
\* filtered the line) and the translator starts on it
ClaudeChunkBegin ==
    /\ claudePc = "streaming"
    /\ claudeN < MaxChunks
    /\ \E raw \in UpstreamChunks :
         LET chunk == FilterSSEUsageMetadata(raw)
             a     == ClaudeChunkStart(claudeState)
         IN /\ claudeChunk' = chunk
            /\ claudeState' = a.st
            /\ claudeOut' = a.out
            /\ claudeSeen' = [claudeSeen EXCEPT
                    !.fin = IF chunk.hasFin THEN chunk.fin ELSE @]
    /\ claudeLog' = ClaudeAfter
    /\ claudeWire' = <<>>
    /\ claudeN' = claudeN + 1
    /\ claudePc' = "parts"
    /\ UNCHANGED claudeStatus

\* one iteration of the translator's loop over the parts
ClaudePartStep ==
    /\ claudePc = "parts"
    /\ claudeChunk.left > 0
    /\ \E part \in Parts :
         LET a == ClaudePart(Acc(claudeState, claudeOut), part,
                             claudeChunk.hasFin)
         IN /\ claudeState' = a.st
            /\ claudeOut' = a.out
            /\ claudeSeen' = [claudeSeen EXCEPT !.call = @ \/ IsCall(part)]
    /\ claudeChunk' = [claudeChunk EXCEPT !.left = @ - 1]
    /\ UNCHANGED <<claudePc, claudeWire, claudeLog, claudeN, claudeStatus>>

\* the translator returns and the handler writes the result to the client
ClaudeChunkEnd ==
    /\ claudePc = "parts"
    /\ claudeChunk.left = 0
    /\ LET a == ClaudeChunkFinish(Acc(claudeState, claudeOut), claudeChunk)
       IN /\ claudeState' = a.st
          /\ claudeWire' = a.out
    /\ claudeLog' = ClaudeAfter
    /\ claudeOut' = <<>>
    /\ claudePc' = "streaming"
    /\ UNCHANGED <<claudeChunk, claudeSeen, claudeN, claudeStatus>>

\* the loop ends (cause: the channel was closed, or an error chunk made the
\* handler break) and [DONE] is sent through the translator
ClaudeFinish(cause) ==
    /\ claudePc = "streaming"
    /\ LET a == ClaudeDone(claudeState)
       IN /\ claudeState' = a.st
          /\ claudeWire' = a.out
    /\ claudeLog' = ClaudeAfter
    /\ claudeSeen' = [claudeSeen EXCEPT !.end = cause]
    /\ claudePc' = "done"
    /\ UNCHANGED <<claudeChunk, claudeOut, claudeN, claudeStatus>>

ClaudeBodyEnd     == ClaudeFinish("eof")
ClaudeReaderError == ClaudeFinish("error")


\* ------------------------------------------------------------------------
\* Claims about the Anthropic event stream
\* ------------------------------------------------------------------------
\* C1: every content_block_start finds no other block open and carries the
\* next index 0,1,2,...; every content_block_stop closes a block that is
\* open; and when the request is over every started block has been stopped.
C1_BlocksPairedAndContiguous ==
    /\ \A k \in 1..Len(claudeWire) :
         LET h == ClaudeBefore(k)
             e == claudeWire[k]
         IN /\ e.ev = "content_block_start" =>
                  h.open = {} /\ e.index = h.nStart
            /\ e.ev = "content_block_stop" =>
                  \E o \in h.open : o.index = e.index
    /\ claudePc = "done" => ClaudeAfter.open = {}

\* C2: once the handler of an opened stream has returned, exactly one
\* message_stop has been written and it is the last event written.
C2_ExactlyOneMessageStopLast ==
    /\ ClaudeAfter.nMessageStop <= 1
    /\ ClaudeAfter.nMessageStop = 1 => ClaudeAfter.last = "message_stop"
    /\ claudePc = "done" => ClaudeAfter.nMessageStop = 1

\* the stop_reason the claim gives for what the upstream has sent so far
ExpectedStopReason(seen) ==
    IF seen.call THEN "tool_use"
    ELSE IF seen.fin = "MAX_TOKENS" THEN "max_tokens"
    ELSE "end_turn"

\* C5: the stop_reason of message_delta is tool_use if a functionCall part
\* has been seen in the stream, otherwise max_tokens if the finishReason
\* observed is MAX_TOKENS, otherwise (STOP, UNKNOWN,
\* FINISH_REASON_UNSPECIFIED, none observed) end_turn.
C5_StopReasonMapping ==
    \A k \in 1..Len(claudeWire) :
        claudeWire[k].ev = "message_delta" =>
            claudeWire[k].arg = ExpectedStopReason(claudeSeen)

\* C5 witness: a terminal chunk without any functionCall part yields
\* message_delta with stop_reason tool_use because of an earlier call.
C5_Witness ==
    /\ claudePc = "streaming"
    /\ claudeChunk.hasFin
    /\ \E k \in 1..Len(claudeWire) :
          claudeWire[k] = Ev("message_delta", -1, "tool_use")
    /\ \A k \in 1..Len(claudeWire) : claudeWire[k].ev # "content_block_start"

\* C6: message_delta is written at most once, with no block open at that
\* moment, and nothing but message_stop is written after it.
C6_MessageDeltaClosesTheStream ==
    /\ ClaudeAfter.nMessageDelta <= 1
    /\ \A k \in 1..Len(claudeWire) :
         LET h == ClaudeBefore(k)
             e == claudeWire[k]
         IN /\ e.ev = "message_delta" => h.open = {}
            /\ h.nMessageDelta > 0 => e.ev = "message_stop"

\* C7: as long as no content event (content_block_start or
\* content_block_delta) has been written, neither message_delta nor
\* message_stop is written.
C7_NoContentNoTerminalEvents ==
    ~ClaudeAfter.content =>
        ClaudeAfter.nMessageDelta = 0 /\ ClaudeAfter.nMessageStop = 0

\* C7 witness: the stream is over, a terminal chunk with usage arrived, and
\* no content event was ever written.
C7_Witness ==
    /\ claudePc = "done"
    /\ claudeState.HasFinishReason /\ claudeState.HasUsageMetadata
    /\ ~claudeState.HasContent
    /\ ~ClaudeAfter.content
    /\ claudeLog.last = "message_start"

\* ------------------------------------------------------------------------
\* OpenAI streaming translator (ConvertAntigravityResponseToOpenAI)
\* ------------------------------------------------------------------------
\* OpenAIStreamState; UnixTimestamp only feeds the "created" field and is
\* left out.
OpenAIStreamState0 == [FunctionIndex |-> 0]

\* strings.ToLower on the finish reasons
ToLower(str) ==
    CASE str = "STOP" -> "stop"
      [] str = "MAX_TOKENS" -> "max_tokens"
      [] str = "UNKNOWN" -> "unknown"
      [] str = "FINISH_REASON_UNSPECIFIED" -> "finish_reason_unspecified"
      [] OTHER -> str

\* The chat.completion.chunk template: finish_reason ("" is null), whether a
\* usage block was set, delta.content and delta.reasoning_content (<<>> is
\* null, <<t>> the text t), delta.tool_calls (null until the first call of
\* the chunk; then the "index" of each entry) and the number of
\* delta.images entries.
Template0 ==
    [finish_reason |-> "", usage |-> FALSE, content |-> <<>>,
     reasoning_content |-> <<>>, toolArray |-> FALSE, tool_calls |-> <<>>,
     images |-> 0]

\* the working values of one translator call
OAcc(st, template, hasFunctionCall) ==
    [st |-> st, template |-> template, hasFunctionCall |-> hasFunctionCall]

\* lines 33-76: the template before the loop over the parts
OpenAIChunkStart(st, chunk) ==
    LET t1 == IF chunk.hasFin
              THEN [Template0 EXCEPT !.finish_reason = ToLower(chunk.fin)]
              ELSE Template0
        t2 == [t1 EXCEPT !.usage = chunk.usage]
    IN OAcc(st, t2, FALSE)

\* lines 83-163: the body of the loop over the parts
OpenAIPart(acc, part) ==
    LET hasThoughtSignature == part.sig
        hasContentPayload   == part.hasText \/ part.hasFC \/ part.inline
        t == acc.template
    IN IF hasThoughtSignature /\ ~hasContentPayload THEN acc
       ELSE IF part.hasText
       THEN IF part.thought
            THEN [acc EXCEPT !.template.reasoning_content = <<part.text>>]
            ELSE [acc EXCEPT !.template.content = <<part.text>>]
       ELSE IF part.hasFC
       THEN LET functionCallIndex ==
                    IF t.toolArray THEN Len(t.tool_calls)
                    ELSE acc.st.FunctionIndex
            IN [acc EXCEPT !.hasFunctionCall = TRUE,
                           !.st.FunctionIndex = @ + 1,
                           !.template.toolArray = TRUE,
                           !.template.tool_calls = Append(@, functionCallIndex)]
       ELSE IF part.inline
       THEN [acc EXCEPT !.template.images = @ + 1]
       ELSE acc

\* lines 167-172: the finish reason of a chunk that held a function call
OpenAIChunkFinish(acc) ==
    IF acc.hasFunctionCall
    THEN [acc EXCEPT !.template.finish_reason = "tool_calls"]
    ELSE acc

\* ------------------------------------------------------------------------
\* handleStreamingOpenAI and handleStreamingResponses (the same code)
\* ------------------------------------------------------------------------
\* a line "data: <payload>" of the event stream
DataLine(chunk)  == [payload |-> "chunk", chunk |-> chunk]
DoneLine         == [payload |-> "[DONE]", chunk |-> Template0]

\* a handler that leaves the stream without terminator when the loop was
\* broken by an error chunk (mutant)
OpenAIAfterLoopNoDoneOnError(cause) ==
    IF cause = "error" THEN <<>> ELSE <<DoneLine>>

\* what the handler writes once the loop over the channel is over
\* (lines 242-243 and 316-317)
OpenAIAfterLoop(cause) == <<DoneLine>>

\* nChunks: translated chunks written; nDone: "data: [DONE]" lines written;
\* last: "chunk", "done" or "" for the last line written
LineLog0 == [nChunks |-> 0, nDone |-> 0, last |-> ""]

AbsorbLine(h, line) ==
    IF line.payload = "[DONE]"
    THEN [h EXCEPT !.nDone = @ + 1, !.last = "done"]
    ELSE [h EXCEPT !.nChunks = @ + 1, !.last = "chunk"]

RECURSIVE AbsorbLines(_, _)
AbsorbLines(h, ls) ==
    IF ls = <<>> THEN h ELSE AbsorbLines(AbsorbLine(h, Head(ls)), Tail(ls))

OpenAIAfter == AbsorbLines(openaiLog, openaiWire)

\* call: a functionCall part was seen; earlier: one was seen in a chunk
\* before the current one; end: why the loop ended
OpenAISeen0 == [call |-> FALSE, earlier |-> FALSE, end |-> ""]

OpenAIStart ==
    /\ openaiPc = "init"
    /\ openaiState = OpenAIStreamState0
    /\ openaiChunk = NoChunk
    /\ openaiOut = [template |-> Template0, hasFunctionCall |-> FALSE]
    /\ openaiWire = <<>>
    /\ openaiLog = LineLog0
    /\ openaiSeen = OpenAISeen0
    /\ openaiN = 0
    /\ openaiStatus = 0

\* ExecuteStream returned an error: a JSON error body, no event stream
OpenAIOpenFail ==
    /\ openaiPc = "init"
    /\ openaiPc' = "failed"
    /\ openaiStatus' = 500
    /\ UNCHANGED <<openaiRoute, openaiState, openaiChunk, openaiOut,
                   openaiWire, openaiLog, openaiSeen, openaiN>>

\* ExecuteStream returned the channel
OpenAIOpen ==
    /\ openaiPc = "init"
    /\ openaiPc' = "streaming"
    /\ openaiStatus' = 200
    /\ UNCHANGED <<openaiRoute, openaiState, openaiChunk, openaiOut,
                   openaiWire, openaiLog, openaiSeen, openaiN>>

\* the channel delivers a data chunk and the translator starts on it
OpenAIChunkBegin ==
    /\ openaiPc = "streaming"
    /\ openaiN < MaxChunks
    /\ \E raw \in UpstreamChunks :
         LET chunk == FilterSSEUsageMetadata(raw)
             a     == OpenAIChunkStart(openaiState, chunk)
         IN /\ openaiChunk' = chunk
            /\ openaiOut' = [template |-> a.template,
                             hasFunctionCall |-> a.hasFunctionCall]
    /\ openaiSeen' = [openaiSeen EXCEPT !.earlier = openaiSeen.call]
    /\ openaiLog' = OpenAIAfter
    /\ openaiWire' = <<>>
    /\ openaiN' = openaiN + 1
    /\ openaiPc' = "parts"
    /\ UNCHANGED <<openaiRoute, openaiState, openaiStatus>>

\* one iteration of the translator's loop over the parts
OpenAIPartStep ==
    /\ openaiPc = "parts"
    /\ openaiChunk.left > 0
    /\ \E part \in Parts :
         LET a == OpenAIPart(OAcc(openaiState, openaiOut.template,
                                  openaiOut.hasFunctionCall), part)
         IN /\ openaiState' = a.st
            /\ openaiOut' = [template |-> a.template,
                             hasFunctionCall |-> a.hasFunctionCall]
            /\ openaiSeen' = [openaiSeen EXCEPT !.call = @ \/ IsCall(part)]
    /\ openaiChunk' = [openaiChunk EXCEPT !.left = @ - 1]
    /\ UNCHANGED <<openaiRoute, openaiPc, openaiWire, openaiLog, openaiN,
                   openaiStatus>>

\* the translator returns and the handler writes "data: <chunk>"
OpenAIChunkEnd ==
    /\ openaiPc = "parts"
    /\ openaiChunk.left = 0
    /\ LET a == OpenAIChunkFinish(OAcc(openaiState, openaiOut.template,
                                       openaiOut.hasFunctionCall))
       IN openaiWire' = <<DataLine(a.template)>>
    /\ openaiOut' = [template |-> Template0, hasFunctionCall |-> FALSE]
    /\ openaiPc' = "streaming"
    /\ UNCHANGED <<openaiRoute, openaiState, openaiChunk, openaiLog,
                   openaiSeen, openaiN, openaiStatus>>

\* the loop ends (the channel was closed, or an error chunk made the
\* handler break) and the handler writes the terminator
OpenAIFinish(cause) ==
    /\ openaiPc = "streaming"
    /\ openaiWire' = OpenAIAfterLoop(cause)
    /\ openaiLog' = OpenAIAfter
    /\ openaiSeen' = [openaiSeen EXCEPT !.end = cause]
    /\ openaiPc' = "done"
    /\ UNCHANGED <<openaiRoute, openaiState, openaiChunk, openaiOut, openaiN,
                   openaiStatus>>

OpenAIBodyEnd     == OpenAIFinish("eof")
OpenAIReaderError == OpenAIFinish("error")

\* ------------------------------------------------------------------------
\* AccountManager: Load and Next
\* ------------------------------------------------------------------------
Handlers == 1..NumHandlers

\* what accounts.json may hold: 0..MaxAccounts accounts and any current_index
PoolFiles ==
    [n : 0..MaxAccounts, current_index : -1..(MaxAccounts + 1)]

\* Load without the bounds check of lines 69-72 (mutant)
LoadIndexUnchecked(file) == file.current_index

\* Load, lines 67-72: the cursor taken from the file, reset to 0 when it is
\* out of bounds
LoadIndex(file) ==
    IF file.current_index < 0 \/ file.current_index >= file.n
    THEN 0
    ELSE file.current_index

\* a mutex that never excludes anyone (mutant)
MutexNeverHeld(m) == TRUE

\* m.mu.Lock() returns only when nobody holds the mutex
MutexFree(m) == m = 0

PoolStart ==
    /\ poolLoaded = "no"
    /\ accounts = <<>>
    /\ currentIndex = 0
    /\ mu = 0
    /\ nextPc = [h \in Handlers |-> "idle"]
    /\ nextAccount = [h \in Handlers |-> 0]
    /\ served = [a \in 1..MaxAccounts |-> 0]
    /\ reads = <<>>
    /\ cursor0 = 0

\* LoadAccountManager -> AccountManager.Load (lines 48-76); on an error the
\* server runs without an AccountManager
Load ==
    /\ poolLoaded = "no"
    /\ IF poolFile.n = 0
       THEN /\ poolLoaded' = "failed"
            /\ UNCHANGED <<accounts, currentIndex, cursor0>>
       ELSE /\ poolLoaded' = "yes"
            /\ accounts' = [i \in 1..poolFile.n |-> i]
            /\ currentIndex' = LoadIndex(poolFile)
            /\ cursor0' = LoadIndex(poolFile)
    /\ UNCHANGED <<poolFile, mu, nextPc, nextAccount, served, reads>>

\* Next, lines 80-85: the call takes the mutex
NextLock(h) ==
    /\ poolLoaded = "yes"
    /\ nextPc[h] = "idle"
    /\ Len(reads) + Cardinality({g \in Handlers : nextPc[g] = "locked"})
         < MaxCalls
    /\ MutexFree(mu)
    /\ mu' = h
    /\ nextPc' = [nextPc EXCEPT ![h] = IF Len(accounts) = 0 THEN "return"
                                      ELSE "locked"]
    /\ UNCHANGED <<poolFile, poolLoaded, accounts, currentIndex, nextAccount,
                   served, reads, cursor0>>

\* Next, lines 88-89: account := m.accounts[m.currentIndex] and its copy
\* into fresh Credentials (the slice is indexed from 0, the sequence from 1)
NextRead(h) ==
    /\ nextPc[h] = "locked"
    /\ currentIndex + 1 \in DOMAIN accounts
    /\ nextAccount' = [nextAccount EXCEPT ![h] = accounts[currentIndex + 1]]
    /\ reads' = Append(reads, currentIndex)
    /\ nextPc' = [nextPc EXCEPT ![h] = "read"]
    /\ UNCHANGED <<poolFile, poolLoaded, accounts, currentIndex, mu, served,
                   cursor0>>

\* Next, line 95: the cursor advances
NextAdvance(h) ==
    /\ nextPc[h] = "read"
    /\ currentIndex' = (currentIndex + 1) % Len(accounts)
    /\ nextPc' = [nextPc EXCEPT ![h] = "return"]
    /\ UNCHANGED <<poolFile, poolLoaded, accounts, mu, nextAccount, served,
                   reads, cursor0>>

\* Next, line 97 and the deferred Unlock: the credentials are returned
NextReturn(h) ==
    /\ nextPc[h] = "return"
    /\ mu' = 0
    /\ served' = IF nextAccount[h] = 0 THEN served
                 ELSE [served EXCEPT ![nextAccount[h]] = @ + 1]
    /\ nextAccount' = [nextAccount EXCEPT ![h] = 0]
    /\ nextPc' = [nextPc EXCEPT ![h] = "idle"]
    /\ UNCHANGED <<poolFile, poolLoaded, accounts, currentIndex, reads,
                   cursor0>>

\* ------------------------------------------------------------------------
\* Ingress: the engine built by NewServer and setupRoutes
\* (internal/api/server.go, lines 261-369; internal/api/middleware.go,
\* lines 143-416)
\* ------------------------------------------------------------------------
StaticKey == "sk-static"
StoreKeys == {"key-1", "key-2"}
ClientKeys == {StaticKey, "key-1", "key-2", "key-x"}
ClientIP == "ip"
BodyModels == {"", "m1", "m2"}

\* a request: method, path, the two headers a key may travel in, and the
\* body's model field ("" when absent)
MkRequest(method, path, bearer, xApiKey, model) ==
    [method |-> method, path |-> path, bearer |-> bearer,
     xApiKey |-> xApiKey, model |-> model]

PostPaths == {"/v1/chat/completions", "/v1/responses", "/v1/messages"}

Headers ==
    {<<"", "">>} \cup {<<k, "">> : k \in ClientKeys}
                 \cup {<<"", "key-1">>, <<"key-x", StaticKey>>}

Requests ==
    {MkRequest("POST", p, h[1], h[2], m) :
        p \in PostPaths, h \in Headers, m \in BodyModels}
    \cup {MkRequest("GET", "/v1/models", h[1], h[2], "") : h \in Headers}
    \cup {MkRequest("OPTIONS", "/v1/messages", "", "", "")}

NoRequest == MkRequest("", "", "", "", "")

\* a response: status 0 stands for c.Next(), the request goes on
Resp(status, type, by) == [status |-> status, type |-> type, by |-> by]
Pass == Resp(0, "", "")

\* extractAPIKey: Authorization: Bearer first, then x-api-key
extractAPIKey(req) ==
    IF req.bearer # "" THEN req.bearer ELSE req.xApiKey

\* KeyStore.Validate
Validate(key) == key \in DOMAIN keyStore.keys

\* KeyStore.Get: the record of the key, or none
NoKey == [found |-> FALSE, RateLimit |-> 0, AllowedModels |-> {}]
Get(key) ==
    IF key \in DOMAIN keyStore.keys
    THEN [found |-> TRUE,
          RateLimit |-> keyStore.keys[key].RateLimit,
          AllowedModels |-> keyStore.keys[key].AllowedModels]
    ELSE NoKey

corsMiddleware(req) ==
    IF req.method = "OPTIONS" THEN Resp(204, "", "corsMiddleware") ELSE Pass

\* the layer as it was before the key store: static keys only
apiKeyAuthStaticOnly(req) ==
    IF cfg.APIKeys = {} THEN Pass
    ELSE IF extractAPIKey(req) \in cfg.APIKeys THEN Pass
    ELSE Resp(401, "authentication_error", "apiKeyAuth")
apiKeyAuth(req) ==
    IF cfg.APIKeys = {} /\ ~keyStore.present THEN Pass
    ELSE LET apiKey == extractAPIKey(req)
             valid == \/ apiKey \in cfg.APIKeys
                      \/ keyStore.present /\ Validate(apiKey)
         IN  IF valid THEN Pass
             ELSE Resp(401, "authentication_error", "apiKeyAuth")

\* rate.NewLimiter(rate.Every(time.Minute/limit), limit): a full bucket
NewLimiter(limit) == [burst |-> limit, tokens |-> limit]

\* sync.Map.LoadOrStore followed by an update of the stored limiter
StoreLimiter(lim, k, l) ==
    [x \in DOMAIN lim \cup {k} |-> IF x = k THEN l ELSE lim[x]]

\* rateLimitMiddleware: the response and the limiters it leaves behind
rateLimitMiddleware(req, lim) ==
    LET key == extractAPIKey(req)
        perKey == IF key # "" /\ keyStore.present THEN Get(key) ELSE NoKey
        limit == IF perKey.found /\ perKey.RateLimit > 0
                 THEN perKey.RateLimit ELSE cfg.RateLimit
        k == IF key = "" THEN ClientIP ELSE key
        limiter == IF k \in DOMAIN lim THEN lim[k] ELSE NewLimiter(limit)
    IN  IF limit <= 0 THEN [resp |-> Pass, limiters |-> lim]
        ELSE IF limiter.tokens >= 1
        THEN [resp |-> Pass,
              limiters |-> StoreLimiter(lim, k,
                              [limiter EXCEPT !.tokens = @ - 1])]
        ELSE [resp |-> Resp(429, "rate_limit_error", "rateLimitMiddleware"),
              limiters |-> StoreLimiter(lim, k, limiter)]

modelAccessMiddleware(req) ==
    LET apiKey == extractAPIKey(req)
        keyData == Get(apiKey)
    IN  IF req.method # "POST" THEN Pass
        ELSE IF apiKey \in cfg.APIKeys THEN Pass
        ELSE IF ~keyStore.present THEN Pass
        ELSE IF ~keyData.found THEN Pass
        ELSE IF keyData.AllowedModels = {} THEN Pass
        ELSE IF req.model = "" THEN Pass
        ELSE IF req.model \notin keyData.AllowedModels
        THEN Resp(403, "permission_error", "modelAccessMiddleware")
        ELSE Pass

\* masterSecretAuth: 503 without a configured secret, 401 without the
\* header or with another bearer than the secret
masterSecretAuth(req) ==
    IF masterSecret = ""
    THEN Resp(503, "configuration_error", "masterSecretAuth")
    ELSE IF req.bearer = ""
    THEN Resp(401, "authentication_error", "masterSecretAuth")
    ELSE IF req.bearer # masterSecret
    THEN Resp(401, "authentication_error", "masterSecretAuth")
    ELSE Pass

\* NewServer, lines 269 and 300-304: the middlewares every request crosses
EngineMiddlewares ==
    <<"corsMiddleware", "requestLogger">>
        \o (IF cfg.RateLimit > 0 THEN <<"rateLimitMiddleware">> ELSE <<>>)

\* setupRoutes: the routes it registers, each with its own middlewares
Routed(req) ==
    \/ req.method = "GET" /\ req.path = "/v1/models"
    \/ req.method = "POST" /\ req.path \in PostPaths

RouteMiddlewares(req) ==
    IF Routed(req) THEN <<"apiKeyAuth">> ELSE <<>>

Middleware(name, req, lim) ==
    CASE name = "corsMiddleware" ->
            [resp |-> corsMiddleware(req), limiters |-> lim]
      [] name = "rateLimitMiddleware" -> rateLimitMiddleware(req, lim)
      [] name = "apiKeyAuth" ->
            [resp |-> apiKeyAuth(req), limiters |-> lim]
      [] name = "modelAccessMiddleware" ->
            [resp |-> modelAccessMiddleware(req), limiters |-> lim]
      [] name = "masterSecretAuth" ->
            [resp |-> masterSecretAuth(req), limiters |-> lim]
      [] OTHER -> [resp |-> Pass, limiters |-> lim]

\* gin runs the chain in order until a middleware aborts
RECURSIVE RunChain(_, _, _)
RunChain(chain, req, lim) ==
    IF chain = <<>> THEN [resp |-> Pass, limiters |-> lim]
    ELSE LET r == Middleware(Head(chain), req, lim)
         IN  IF r.resp.status # 0 THEN r
             ELSE RunChain(Tail(chain), req, r.limiters)

\* chatCompletionsHandler, responsesHandler, messagesHandler, modelsHandler:
\* the response, and whether the upstream was called
EndpointHandler(req, upstream) ==
    IF req.method = "GET"
    THEN [resp |-> Resp(200, "", "modelsHandler"), upstream |-> FALSE]
    ELSE IF ~hasCreds
    THEN [resp |-> Resp(401, "authentication_error", "handler"),
          upstream |-> FALSE]
    ELSE IF upstream = "ok"
    THEN [resp |-> Resp(200, "", "handler"), upstream |-> TRUE]
    ELSE [resp |-> Resp(500, "api_error", "handler"), upstream |-> TRUE]

Configs ==
    [APIKeys : {{}, {StaticKey}}, RateLimit : 0..MaxRateLimit,
     DataDir : {"", "data"}]

NoKeyStore == [present |-> FALSE, keys |-> <<>>]

\* what keys.json may hold when the server starts: nothing, or key-1
\* restricted to model m1 and key-2 unrestricted
KeyStores ==
    {[present |-> TRUE, keys |-> <<>>]}
    \cup {[present |-> TRUE,
           keys |-> [k \in StoreKeys |->
                       IF k = "key-1"
                       THEN [RateLimit |-> r, AllowedModels |-> {"m1"}]
                       ELSE [RateLimit |-> 0, AllowedModels |-> {}]]] :
          r \in 0..MaxRateLimit}

\* the key a request is limited under: its API key, or the client IP
LimiterKey(req) ==
    IF extractAPIKey(req) = "" THEN ClientIP ELSE extractAPIKey(req)

NoStreak == [key |-> "", n |-> 0]

IngressStart ==
    /\ ingStreak = NoStreak
    /\ limiters = <<>>
    /\ ingReq = NoRequest
    /\ ingResp = Pass
    /\ ingRan = FALSE
    /\ ingUpstream = FALSE
    /\ ingN = 0

\* NewServer: a key store exists exactly when cfg.DataDir is set
IngressInit ==
    /\ cfg \in Configs
    /\ keyStore \in (IF cfg.DataDir = "" THEN {NoKeyStore} ELSE KeyStores)
    /\ hasCreds \in BOOLEAN
    /\ IngressStart

\* one request through the engine
ServeRequest(req, upstream) ==
    /\ ingN < MaxRequests
    /\ ingN' = ingN + 1
    /\ LET chain == EngineMiddlewares \o RouteMiddlewares(req)
           r == RunChain(chain, req, limiters)
           h == EndpointHandler(req, upstream)
       IN  /\ ingReq' = req
           /\ limiters' = r.limiters
           /\ IF r.resp.status # 0
              THEN /\ ingResp' = r.resp
                   /\ ingRan' = FALSE
                   /\ ingUpstream' = FALSE
              ELSE IF ~Routed(req)
              THEN /\ ingResp' = Resp(404, "", "noRoute")
                   /\ ingRan' = FALSE
                   /\ ingUpstream' = FALSE
              ELSE /\ ingResp' = h.resp
                   /\ ingRan' = TRUE
                   /\ ingUpstream' = h.upstream
    /\ ingStreak' = IF ~ingRan' THEN ingStreak
                    ELSE [key |-> LimiterKey(req),
                          n |-> IF ingStreak.key = LimiterKey(req)
                                THEN ingStreak.n + 1 ELSE 1]
    /\ UNCHANGED <<cfg, keyStore, hasCreds>>

Serve ==
    \E req \in Requests, upstream \in {"ok", "error"} :
        ServeRequest(req, upstream)

\* time passes: a limiter below its burst gains a token
Refill ==
    \E k \in DOMAIN limiters :
        /\ limiters[k].tokens < limiters[k].burst
        /\ limiters' = [limiters EXCEPT ![k].tokens = @ + 1]
        /\ ingStreak' = NoStreak
        /\ UNCHANGED <<cfg, keyStore, hasCreds, ingReq, ingResp, ingRan,
                       ingUpstream, ingN>>

\* ------------------------------------------------------------------------
\* The key store and the admin handlers
\* ------------------------------------------------------------------------

\* delete(ks.keys, key): the rollback of Generate when save fails
GenerateNoUndo(keys, key) == keys
GenerateUndo(keys, key) == [k \in (DOMAIN keys) \ {key} |-> keys[k]]

\* delete(ks.keys, key) in Revoke
RevokeKeepsKey(keys, key) == keys
RevokeDelete(keys, key) == [k \in (DOMAIN keys) \ {key} |-> keys[k]]

\* KeyStore.save: the file holds the map when the write succeeds, and what
\* it held before when it fails
save(keys, file, ok) == IF ok THEN keys ELSE file

\* KeyStore.Generate with the key uuid.New() drew: the error, the map and
\* the file it leaves
Generate(keys, file, key, apiKey, saveOk) ==
    LET added == [k \in (DOMAIN keys) \cup {key} |->
                    IF k = key THEN apiKey ELSE keys[k]]
    IN  IF saveOk
        THEN [err |-> FALSE, keys |-> added, file |-> save(added, file, TRUE)]
        ELSE [err |-> TRUE, keys |-> GenerateUndo(added, key),
              file |-> save(added, file, FALSE)]

\* KeyStore.Revoke
Revoke(keys, file, key, saveOk) ==
    IF key \notin DOMAIN keys
    THEN [err |-> TRUE, keys |-> keys, file |-> file]
    ELSE LET original == keys[key]
             removed == RevokeDelete(keys, key)
         IN  IF saveOk
             THEN [err |-> FALSE, keys |-> removed,
                   file |-> save(removed, file, TRUE)]
             ELSE [err |-> TRUE,
                   keys |-> [k \in (DOMAIN removed) \cup {key} |->
                               IF k = key THEN original ELSE removed[k]],
                   file |-> save(removed, file, FALSE)]

MasterSecrets == {"", "secret"}
AdminBearers == {"", "secret", "wrong"}

\* generateKeyRequest as bound by ShouldBindJSON, or a body it rejects
GenerateBodies ==
    {[valid |-> FALSE, RateLimit |-> 0, AllowedModels |-> {}],
     [valid |-> TRUE, RateLimit |-> 0, AllowedModels |-> {}],
     [valid |-> TRUE, RateLimit |-> MaxRateLimit, AllowedModels |-> {"m1"}]}

\* setupRoutes, line 356: POST /admin/keys is registered with its handler
\* alone
AdminMiddlewares == <<>>

NoOp ==
    [op |-> "", bearer |-> "", status |-> 0, type |-> "", ran |-> FALSE,
     called |-> FALSE, key |-> "", err |-> FALSE, before |-> <<>>]

\* generateKeyHandler: its response, whether it called Generate, and what
\* Generate returned; a nil key store panics and gin.Recovery answers 500
generateKeyHandler(body, key, saveOk) ==
    LET same == [err |-> FALSE, keys |-> keyStore.keys, file |-> keysFile]
        g == Generate(keyStore.keys, keysFile, key,
                      [RateLimit |-> body.RateLimit,
                       AllowedModels |-> body.AllowedModels], saveOk)
    IN  IF ~body.valid
        THEN [resp |-> Resp(400, "invalid_request_error", "generateKeyHandler"),
              called |-> FALSE, out |-> same]
        ELSE IF ~keyStore.present
        THEN [resp |-> Resp(500, "", "Recovery"), called |-> FALSE,
              out |-> same]
        ELSE IF g.err
        THEN [resp |-> Resp(500, "internal_error", "generateKeyHandler"),
              called |-> TRUE, out |-> g]
        ELSE [resp |-> Resp(201, "", "generateKeyHandler"),
              called |-> TRUE, out |-> g]

\* revokeKeyHandler
revokeKeyHandler(key, saveOk) ==
    LET same == [err |-> FALSE, keys |-> keyStore.keys, file |-> keysFile]
        r == Revoke(keyStore.keys, keysFile, key, saveOk)
    IN  IF key = ""
        THEN [resp |-> Resp(400, "invalid_request_error", "revokeKeyHandler"),
              called |-> FALSE, out |-> same]
        ELSE IF ~keyStore.present
        THEN [resp |-> Resp(500, "", "Recovery"), called |-> FALSE,
              out |-> same]
        ELSE IF r.err
        THEN [resp |-> Resp(404, "not_found_error", "revokeKeyHandler"),
              called |-> TRUE, out |-> r]
        ELSE [resp |-> Resp(200, "", "revokeKeyHandler"),
              called |-> TRUE, out |-> r]

\* POST /admin/keys through the engine: the engine's middlewares, the
\* route's, then generateKeyHandler
GenerateKeyRequest ==
    \E bearer \in AdminBearers, body \in GenerateBodies,
       key \in StoreKeys \ (issued \cup revoked), saveOk \in BOOLEAN :
        LET req == MkRequest("POST", "/admin/keys", bearer, "", "")
            r == RunChain(EngineMiddlewares \o AdminMiddlewares, req, limiters)
            h == generateKeyHandler(body, key, saveOk)
            ran == r.resp.status = 0
            ok == ran /\ h.called /\ ~h.out.err
        IN  /\ limiters' = r.limiters
            /\ keyStore' = IF ran THEN [keyStore EXCEPT !.keys = h.out.keys]
                           ELSE keyStore
            /\ keysFile' = IF ran THEN h.out.file ELSE keysFile
            /\ issued' = IF ok THEN issued \cup {key} ELSE issued
            /\ keyOp' = [op |-> "generateKeyHandler", bearer |-> bearer,
                         status |-> IF ran THEN h.resp.status
                                    ELSE r.resp.status,
                         type |-> IF ran THEN h.resp.type ELSE r.resp.type,
                         ran |-> ran, called |-> ran /\ h.called,
                         key |-> key, err |-> ran /\ h.out.err,
                         before |-> keyStore.keys]
            /\ UNCHANGED <<cfg, hasCreds, ingReq, ingResp, ingRan,
                           ingUpstream, ingN, ingStreak, masterSecret,
                           revoked>>

\* revokeKeyHandler run for the key of its path
RevokeKeyRequest ==
    \E key \in StoreKeys \cup {""}, saveOk \in BOOLEAN :
        LET h == revokeKeyHandler(key, saveOk)
            ok == h.called /\ ~h.out.err
        IN  /\ keyStore' = [keyStore EXCEPT !.keys = h.out.keys]
            /\ keysFile' = h.out.file
            /\ issued' = IF ok THEN issued \ {key} ELSE issued
            /\ revoked' = IF ok THEN revoked \cup {key} ELSE revoked
            /\ keyOp' = [op |-> "revokeKeyHandler", bearer |-> "",
                         status |-> h.resp.status, type |-> h.resp.type,
                         ran |-> TRUE, called |-> h.called, key |-> key,
                         err |-> h.out.err, before |-> keyStore.keys]
            /\ UNCHANGED <<cfg, limiters, hasCreds, ingReq, ingResp, ingRan,
                           ingUpstream, ingN, ingStreak, masterSecret>>

\* the client requests served between key operations
KeyRequests ==
    {MkRequest("POST", "/v1/messages", h[1], h[2], "") : h \in Headers}
    \cup {MkRequest("GET", "/v1/models", h[1], h[2], "") : h \in Headers}

ServeKeyed ==
    /\ \E req \in KeyRequests, upstream \in {"ok", "error"} :
        ServeRequest(req, upstream)
    /\ keyOp' = [NoOp EXCEPT !.op = "request"]
    /\ UNCHANGED <<masterSecret, keysFile, issued, revoked>>

\* NewServer with the rate limiter off; NewKeyStore loads api_keys.json
KeysInit ==
    /\ cfg \in {c \in Configs : c.RateLimit = 0}
    /\ keyStore \in (IF cfg.DataDir = "" THEN {NoKeyStore} ELSE KeyStores)
    /\ hasCreds = TRUE
    /\ IngressStart
    /\ masterSecret \in MasterSecrets
    /\ keysFile = keyStore.keys
    /\ issued = DOMAIN keyStore.keys
    /\ revoked = {}
    /\ keyOp = NoOp

\* ------------------------------------------------------------------------
\* The executor: token, base-URL fallback, and the status the client gets
\* ------------------------------------------------------------------------
BaseURLDaily == "daily"
BaseURLProd == "prod"

\* auth.Credentials: nil, or its access token, whether IsExpired() holds,
\* its refresh token and the base URL it pins
MkCreds(present, token, expired, refresh, base) ==
    [present |-> present, AccessToken |-> token, Expired |-> expired,
     RefreshToken |-> refresh, BaseURL |-> base]

NilCreds == MkCreds(FALSE, "", FALSE, "", "")

CredsSet ==
    {NilCreds}
    \cup {MkCreds(TRUE, t, e, r, b) :
            t \in {"", "stale"}, e \in BOOLEAN, r \in {"", "refresh"},
            b \in {"", "custom"}}

\* how the call to the token endpoint can end
RefreshOutcomes == {"ok", "transport", "non2xx", "unparsable"}

\* TokenManager.RefreshToken: the error, and the credential it returns
RefreshToken(creds, outcome) ==
    IF ~creds.present THEN [err |-> "nil", creds |-> creds]
    ELSE IF creds.RefreshToken = ""
    THEN [err |-> "noRefreshToken", creds |-> creds]
    ELSE IF outcome # "ok" THEN [err |-> outcome, creds |-> creds]
    ELSE [err |-> "",
          creds |-> [creds EXCEPT !.AccessToken = "fresh", !.Expired = FALSE]]

\* TokenManager.EnsureValidToken
EnsureValidToken(creds, outcome) ==
    IF ~creds.present THEN [err |-> "nil", creds |-> creds, tried |-> FALSE]
    ELSE IF ~creds.Expired
    THEN [err |-> "", creds |-> creds, tried |-> FALSE]
    ELSE LET r == RefreshToken(creds, outcome)
         IN  [err |-> r.err, creds |-> r.creds, tried |-> TRUE]

\* Executor.ensureAccessToken, the executor holding the server's token
\* manager: the token, the error, and what became of the credential
ensureAccessToken(creds, outcome) ==
    LET r == EnsureValidToken(creds, outcome)
    IN  IF ~creds.present
        THEN [token |-> "", err |-> "nil", creds |-> creds, tried |-> FALSE]
        ELSE IF creds.AccessToken # "" /\ ~creds.Expired
        THEN [token |-> creds.AccessToken, err |-> "", creds |-> creds,
              tried |-> FALSE]
        ELSE IF r.err # ""
        THEN [token |-> "", err |-> r.err, creds |-> r.creds,
              tried |-> r.tried]
        ELSE [token |-> r.creds.AccessToken, err |-> "", creds |-> r.creds,
              tried |-> r.tried]

\* Executor.baseURLFallbackOrder
baseURLFallbackOrder(creds) ==
    IF creds.present /\ creds.BaseURL # "" THEN <<creds.BaseURL>>
    ELSE <<BaseURLDaily, BaseURLProd>>

\* how one request to a base URL can end: httpClient.Do fails, or answers
\* with a status and a body that can or cannot be read to its end
UpstreamStatuses == {200, 401, 429, 500}

AttemptOutcomes ==
    {[do |-> "error", status |-> 0, read |-> FALSE]}
    \cup [do : {"ok"}, status : UpstreamStatuses, read : BOOLEAN]

Is2xx(status) == status >= 200 /\ status < 300

\* (*Response, error) of Execute, or (channel, error) of ExecuteStream
Returned(err, hasResp, status) ==
    [err |-> err, hasResp |-> hasResp, status |-> status]

NoResult == Returned(FALSE, FALSE, 0)

\* the body of the loop of Execute for one base URL: go on with the next
\* base URL, or return
ExecuteAttempt(idx, n, out) ==
    IF out.do = "error"
    THEN IF idx + 1 < n THEN [continue |-> TRUE, result |-> NoResult]
         ELSE [continue |-> FALSE, result |-> Returned(TRUE, FALSE, 0)]
    ELSE IF ~out.read
    THEN [continue |-> FALSE, result |-> Returned(TRUE, FALSE, 0)]
    ELSE IF ~Is2xx(out.status)
    THEN IF out.status = 429 /\ idx + 1 < n
         THEN [continue |-> TRUE, result |-> NoResult]
         ELSE [continue |-> FALSE,
               result |-> Returned(TRUE, TRUE, out.status)]
    ELSE [continue |-> FALSE, result |-> Returned(FALSE, TRUE, out.status)]

\* the body of the loop of ExecuteStream for one base URL
ExecuteStreamAttempt(idx, n, out) ==
    IF out.do = "error"
    THEN IF idx + 1 < n THEN [continue |-> TRUE, result |-> NoResult]
         ELSE [continue |-> FALSE, result |-> Returned(TRUE, FALSE, 0)]
    ELSE IF ~Is2xx(out.status)
    THEN IF out.status = 429 /\ idx + 1 < n
         THEN [continue |-> TRUE, result |-> NoResult]
         ELSE [continue |-> FALSE, result |-> Returned(TRUE, FALSE, 0)]
    ELSE [continue |-> FALSE, result |-> Returned(FALSE, TRUE, out.status)]

\* handleNonStreamingOpenAI: the status of the answer
handleNonStreamingOpenAI(result) ==
    IF result.err
    THEN IF result.hasResp THEN result.status ELSE 500
    ELSE 200

\* handleStreamingOpenAI: the status of the answer
handleStreamingOpenAI(result) ==
    IF result.err THEN 500 ELSE 200

ExecStart ==
    /\ execPc = "start"
    /\ execRefresh = ""
    /\ execToken = ""
    /\ execIdx = 0
    /\ execAttempts = <<>>
    /\ execResult = NoResult
    /\ clientStatus = 0

\* the handler calls Execute or ExecuteStream, which asks for the token
EnsureToken ==
    /\ execPc = "start"
    /\ \E outcome \in RefreshOutcomes :
        LET t == ensureAccessToken(execCreds, outcome)
        IN  /\ execCreds' = t.creds
            /\ execRefresh' = IF ~t.tried THEN "none"
                              ELSE IF t.err = "" THEN "ok" ELSE t.err
            /\ execToken' = t.token
            /\ IF t.err # ""
               THEN /\ execPc' = "returned"
                    /\ execResult' = Returned(TRUE, FALSE, 0)
               ELSE /\ execPc' = "loop"
                    /\ execResult' = execResult
    /\ UNCHANGED <<execStream, execIdx, execAttempts, clientStatus>>

\* one turn of the loop over baseURLs: buildRequest, httpClient.Do, and
\* what the function does with the answer
Attempt ==
    /\ execPc = "loop"
    /\ LET urls == baseURLFallbackOrder(execCreds)
       IN  IF execToken = ""
           THEN /\ execPc' = "returned"
                /\ execResult' = Returned(TRUE, FALSE, 0)
                /\ UNCHANGED <<execIdx, execAttempts>>
           ELSE \E out \in AttemptOutcomes :
                LET a == IF execStream
                         THEN ExecuteStreamAttempt(execIdx, Len(urls), out)
                         ELSE ExecuteAttempt(execIdx, Len(urls), out)
                IN  /\ execAttempts' =
                            Append(execAttempts,
                                   [url |-> urls[execIdx + 1],
                                    token |-> execToken,
                                    do |-> out.do, status |-> out.status,
                                    read |-> out.read])
                    /\ IF a.continue
                       THEN /\ execIdx' = execIdx + 1
                            /\ UNCHANGED <<execPc, execResult>>
                       ELSE /\ execPc' = "returned"
                            /\ execResult' = a.result
                            /\ execIdx' = execIdx
    /\ UNCHANGED <<execStream, execCreds, execRefresh, execToken,
                   clientStatus>>

\* the handler answers the client
Respond ==
    /\ execPc = "returned"
    /\ execPc' = "responded"
    /\ clientStatus' = IF execStream THEN handleStreamingOpenAI(execResult)
                       ELSE handleNonStreamingOpenAI(execResult)
    /\ UNCHANGED <<execStream, execCreds, execRefresh, execToken, execIdx,
                   execAttempts, execResult>>

ExecInit ==
    /\ execStream \in BOOLEAN
    /\ execCreds \in CredsSet
    /\ ExecStart

ExecRest ==
    /\ execStream = FALSE
    /\ execCreds = NilCreds
    /\ ExecStart

\* ------------------------------------------------------------------------
\* Token expiry and refresh
\* ------------------------------------------------------------------------
\* IsExpired: const refreshSkew = 50 * time.Minute
refreshSkew == 50

\* a time.Time: the zero time, or a time in minutes
ZeroTime == [zero |-> TRUE, at |-> 0]
TimeAt(t) == [zero |-> FALSE, at |-> t]

\* Credentials.Expired: empty, not RFC3339, or a time
ExpiredEmpty == [kind |-> "empty", at |-> 0]
ExpiredInvalid == [kind |-> "invalid", at |-> 0]
ExpiredAt(t) == [kind |-> "time", at |-> t]

\* the fields of auth.Credentials that expiry and refresh touch
Credentials(token, refresh, expiresIn, timestamp, expired) ==
    [AccessToken |-> token, RefreshToken |-> refresh, ExpiresIn |-> expiresIn,
     Timestamp |-> timestamp, Expired |-> expired]

\* Credentials.TokenExpiry
TokenExpiry(c) ==
    IF c.Expired.kind = "time" THEN TimeAt(c.Expired.at)
    ELSE IF c.ExpiresIn > 0 /\ c.Timestamp > 0
    THEN TimeAt(c.Timestamp + c.ExpiresIn)
    ELSE ZeroTime

\* Credentials.IsExpired: time.Now().Add(refreshSkew).After(expiry)
IsExpired(c, now) ==
    LET expiry == TokenExpiry(c)
    IN  IF expiry.zero THEN TRUE ELSE now + refreshSkew > expiry.at

\* TokenResponse of the token endpoint
TokenResponses ==
    [access_token : {"", "fresh"}, refresh_token : {"", "rotated"},
     expires_in : {0, refreshSkew + 1}]

\* RefreshToken, lines 92-100: the fields a parsed 2xx response sets
UpdateAlwaysRotating(c, resp, now) ==
    Credentials(resp.access_token, resp.refresh_token, resp.expires_in, now,
                ExpiredAt(now + resp.expires_in))
UpdateCredentials(c, resp, now) ==
    Credentials(resp.access_token,
                IF resp.refresh_token # "" THEN resp.refresh_token
                ELSE c.RefreshToken,
                resp.expires_in, now, ExpiredAt(now + resp.expires_in))

\* Store.Update -> Store.Save: the file after the write
StoreUpdate(file, c, writeOk) == IF writeOk THEN c ELSE file

\* the credentials a file may hold at startup
StoredCredentials ==
    {Credentials(t, r, 0, 0, e) :
        t \in {"", "stale"}, r \in {"", "refresh"},
        e \in {ExpiredEmpty, ExpiredInvalid, ExpiredAt(refreshSkew + 1),
               ExpiredAt(refreshSkew + MaxTime + 1)}}
    \cup {Credentials("stale", "refresh", refreshSkew + 1, 1, e) :
            e \in {ExpiredEmpty, ExpiredInvalid}}

NoCall ==
    [called |-> FALSE, now |-> 0, before |-> Credentials("", "", 0, 0, ExpiredEmpty),
     fileBefore |-> Credentials("", "", 0, 0, ExpiredEmpty),
     expired |-> FALSE, tried |-> FALSE, err |-> "",
     resp |-> [access_token |-> "", refresh_token |-> "", expires_in |-> 0],
     writeOk |-> FALSE, token |-> ""]

\* ensureAccessToken for one request, with the refresh and the write to the
\* store it may lead to
EnsureAccessTokenCall ==
    \E outcome \in RefreshOutcomes, resp \in TokenResponses,
       writeOk \in BOOLEAN :
        LET view == MkCreds(TRUE, tokCreds.AccessToken,
                            IsExpired(tokCreds, tokNow),
                            tokCreds.RefreshToken, "")
            t == ensureAccessToken(view, outcome)
            refreshed == t.tried /\ t.err = ""
            new == IF refreshed THEN UpdateCredentials(tokCreds, resp, tokNow)
                   ELSE tokCreds
        IN  /\ tokCreds' = new
            /\ tokFile' = IF refreshed THEN StoreUpdate(tokFile, new, writeOk)
                          ELSE tokFile
            /\ tokLast' = [called |-> TRUE, now |-> tokNow,
                           before |-> tokCreds, fileBefore |-> tokFile,
                           expired |-> IsExpired(tokCreds, tokNow),
                           tried |-> t.tried, err |-> t.err,
                           resp |-> IF refreshed THEN resp ELSE NoCall.resp,
                           writeOk |-> refreshed /\ writeOk,
                           token |-> IF refreshed THEN new.AccessToken
                                     ELSE t.token]
            /\ UNCHANGED tokNow

\* a minute passes
Tick ==
    /\ tokNow < MaxTime
    /\ tokNow' = tokNow + 1
    /\ UNCHANGED <<tokCreds, tokFile, tokLast>>

TokenStart ==
    /\ tokNow = 1
    /\ tokFile = tokCreds
    /\ tokLast = NoCall

TokenInit ==
    /\ tokCreds \in StoredCredentials
    /\ TokenStart

TokenRest ==
    /\ tokCreds = Credentials("", "", 0, 0, ExpiredEmpty)
    /\ TokenStart

\* ------------------------------------------------------------------------
\* Concurrent requests and the credential they are handed
\* ------------------------------------------------------------------------
\* a Credentials object: its token and whether IsExpired() holds for its
\* expiry fields
CredObject(token, expired) == [AccessToken |-> token, expired |-> expired]

\* AccountManager.toCredentials: a new object holding the account's fields
toCredentials(account) == CredObject(account.AccessToken, account.expired)

\* getNextCredentials: the object the handler gets, and the objects after
\* the call
getNextCredentials(h) ==
    IF shareMode = "pool"
    THEN [ref |-> h,
          objs |-> [shareObjs EXCEPT ![h] = toCredentials(shareObjs[0])]]
    ELSE [ref |-> 0, objs |-> shareObjs]

\* the handler takes its credential
Select(h) ==
    /\ sharePc[h] = "idle"
    /\ LET g == getNextCredentials(h)
       IN  /\ shareRef' = [shareRef EXCEPT ![h] = g.ref]
           /\ shareObjs' = g.objs
    /\ sharePc' = [sharePc EXCEPT ![h] = "check"]
    /\ UNCHANGED shareMode

\* ensureAccessToken and EnsureValidToken read AccessToken and the expiry
CheckToken(h) ==
    /\ sharePc[h] = "check"
    /\ LET c == shareObjs[shareRef[h]]
       IN  sharePc' = [sharePc EXCEPT ![h] =
                         IF c.expired THEN "refresh" ELSE "send"]
    /\ UNCHANGED <<shareMode, shareObjs, shareRef>>

\* RefreshToken: the call to the token endpoint returns
RefreshReturns(h) ==
    /\ sharePc[h] = "refresh"
    /\ \E ok \in BOOLEAN :
        sharePc' = [sharePc EXCEPT ![h] = IF ok THEN "writeToken" ELSE "idle"]
    /\ UNCHANGED <<shareMode, shareObjs, shareRef>>

\* RefreshToken, line 94: creds.AccessToken = tokenResp.AccessToken
WriteToken(h) ==
    /\ sharePc[h] = "writeToken"
    /\ shareObjs' = [shareObjs EXCEPT ![shareRef[h]].AccessToken = "fresh"]
    /\ sharePc' = [sharePc EXCEPT ![h] = "writeExpiry"]
    /\ UNCHANGED <<shareMode, shareRef>>

\* RefreshToken, lines 98-100: ExpiresIn, Timestamp, Expired
WriteExpiry(h) ==
    /\ sharePc[h] = "writeExpiry"
    /\ shareObjs' = [shareObjs EXCEPT ![shareRef[h]].expired = FALSE]
    /\ sharePc' = [sharePc EXCEPT ![h] = "persist"]
    /\ UNCHANGED <<shareMode, shareRef>>

\* Store.Update marshals the object, ensureAccessToken reads its token
Persist(h) ==
    /\ sharePc[h] = "persist"
    /\ sharePc' = [sharePc EXCEPT ![h] = "send"]
    /\ UNCHANGED <<shareMode, shareObjs, shareRef>>

\* the request is built from the token in hand and sent; the handler ends
Send(h) ==
    /\ sharePc[h] = "send"
    /\ sharePc' = [sharePc EXCEPT ![h] = "idle"]
    /\ UNCHANGED <<shareMode, shareObjs, shareRef>>

\* the handler's next step reads, or writes, fields RefreshToken writes
Reads(h) == sharePc[h] \in {"check", "persist"}
Writes(h) == sharePc[h] \in {"writeToken", "writeExpiry"}

ShareStart ==
    /\ sharePc = [h \in Handlers |-> "idle"]
    /\ shareRef = [h \in Handlers |-> 0]

\* NewServer: the account pool when accounts.json loads, else the first
\* credential file
ShareInit ==
    /\ shareMode \in {"pool", "single"}
    /\ \E t \in {"", "stale"}, e \in BOOLEAN :
        shareObjs = [o \in {0} \cup Handlers |-> CredObject(t, e)]
    /\ ShareStart

ShareRest ==
    /\ shareMode = "single"
    /\ shareObjs = [o \in {0} \cup Handlers |-> CredObject("", FALSE)]
    /\ ShareStart

\* ------------------------------------------------------------------------
\* Thinking budgets: translators, default injection, stripping, executor
\* ------------------------------------------------------------------------
\* An optional JSON value is a sequence: <<>> when the key is absent, <<v>>
\* when it holds v.

ThinkingSupport(min, max, zero, dynamic) ==
    [Min |-> min, Max |-> max, ZeroAllowed |-> zero, DynamicAllowed |-> dynamic]

ModelConfig(thinking, maxCompletionTokens, name) ==
    [Thinking |-> thinking, MaxCompletionTokens |-> maxCompletionTokens,
     Name |-> name]

modelConfigs ==
    [m \in {"gemini-2.5-flash", "gemini-2.5-flash-lite"} |->
        ModelConfig(<<>>, 0, "models/" \o m)]
    @@ ("gemini-2.5-flash-thinking" :>
        ModelConfig(<<ThinkingSupport(0, 24576, TRUE, TRUE)>>, 0,
                    "gemini-2.5-flash"))
    @@ ("gemini-2.5-flash-lite-thinking" :>
        ModelConfig(<<ThinkingSupport(0, 24576, TRUE, TRUE)>>, 0,
                    "gemini-2.5-flash-lite"))
    @@ ("gemini-3-flash-minimal" :>
        ModelConfig(<<ThinkingSupport(128, 512, FALSE, TRUE)>>, 0,
                    "models/gemini-3-flash"))
    @@ ("gemini-3-flash-thinking" :>
        ModelConfig(<<ThinkingSupport(128, 32768, FALSE, TRUE)>>, 0,
                    "gemini-3-flash"))
    @@ ("gemini-3-pro-high" :>
        ModelConfig(<<ThinkingSupport(128, 32768, FALSE, TRUE)>>, 0,
                    "models/gemini-3-pro-high"))
    @@ ("gemini-3-pro-low" :>
        ModelConfig(<<ThinkingSupport(128, 1024, FALSE, TRUE)>>, 0,
                    "models/gemini-3-pro-low"))
    @@ ("claude-sonnet-4-5" :> ModelConfig(<<>>, 64000, "claude-sonnet-4-5"))
    @@ ("claude-sonnet-4-5-thinking" :>
        ModelConfig(<<ThinkingSupport(1024, 200000, FALSE, TRUE)>>, 64000, ""))
    @@ ("claude-opus-4-5-thinking" :>
        ModelConfig(<<ThinkingSupport(1024, 200000, FALSE, TRUE)>>, 64000,
                    "claude-opus-4-5"))
    @@ ("claude-opus-4-5" :>
        ModelConfig(<<>>, 64000, "claude-opus-4-5-thinking"))

\* GetModelConfig: <<>> for a name the map does not hold
GetModelConfig(model) ==
    IF model \in DOMAIN modelConfigs THEN <<modelConfigs[model]>> ELSE <<>>

ModelSupportsThinking(model) ==
    /\ model # ""
    /\ GetModelConfig(model) # <<>>
    /\ GetModelConfig(model)[1].Thinking # <<>>

\* the descriptor of a model that supports thinking
ThinkingOf(model) == GetModelConfig(model)[1].Thinking[1]

NormalizeThinkingBudget(model, budget) ==
    IF ~ModelSupportsThinking(model) THEN budget
    ELSE LET t == ThinkingOf(model)
             mid == (t.Min + t.Max) \div 2
         IN  IF budget = -1
             THEN IF t.DynamicAllowed THEN -1
                  ELSE IF mid <= 0 /\ t.ZeroAllowed THEN 0
                  ELSE IF mid <= 0 THEN t.Min
                  ELSE mid
             ELSE IF budget = 0
             THEN IF t.ZeroAllowed THEN 0 ELSE t.Min
             ELSE IF budget < t.Min THEN t.Min
             ELSE IF budget > t.Max THEN t.Max
             ELSE budget

ReasoningEffortBudgetMapping ==
    [e \in {"none"} |-> 0] @@ [e \in {"auto"} |-> -1]
    @@ [e \in {"minimal"} |-> 512] @@ [e \in {"low"} |-> 1024]
    @@ [e \in {"medium"} |-> 8192] @@ [e \in {"high"} |-> 24576]
    @@ [e \in {"xhigh"} |-> 32768]

\* request.generationConfig: thinkingConfig.thinkingBudget,
\* thinkingConfig.include_thoughts and maxOutputTokens
GenerationConfig(budget, include, maxTokens) ==
    [thinkingBudget |-> budget, include_thoughts |-> include,
     maxOutputTokens |-> maxTokens]

EmptyConfig == GenerationConfig(<<>>, <<>>, <<>>)

\* gjson: request.generationConfig.thinkingConfig exists
HasThinkingConfig(p) == p.thinkingBudget # <<>> \/ p.include_thoughts # <<>>

\* sjson.Delete of request.generationConfig.thinkingConfig
DeleteThinkingConfig(p) == GenerationConfig(<<>>, <<>>, p.maxOutputTokens)

ApplyReasoningEffortToPayload(modelName, payload, effort) ==
    IF effort = "" THEN payload
    ELSE IF effort = "none"
    THEN IF ModelSupportsThinking(modelName) /\ ThinkingOf(modelName).ZeroAllowed
         THEN GenerationConfig(<<0>>, <<FALSE>>, payload.maxOutputTokens)
         ELSE payload
    ELSE IF effort \notin DOMAIN ReasoningEffortBudgetMapping THEN payload
    ELSE GenerationConfig(<<ReasoningEffortBudgetMapping[effort]>>, <<TRUE>>,
                          payload.maxOutputTokens)

\* the thinking fields and max_tokens of a client request
ThinkRequest(api, model, effort, cherry, thinking, maxTokens) ==
    [api |-> api, model |-> model, reasoning_effort |-> effort,
     thinking_budget |-> cherry, budget_tokens |-> thinking,
     max_tokens |-> maxTokens]

\* ConvertOpenAIRequestToAntigravity, the generationConfig it builds
ConvertOpenAIRequestToAntigravity(modelName, req) ==
    LET supports == ModelSupportsThinking(modelName)
        hasOfficialThinking == req.reasoning_effort # <<>>
        p1 == IF hasOfficialThinking /\ supports
              THEN ApplyReasoningEffortToPayload(modelName, EmptyConfig,
                                                 req.reasoning_effort[1])
              ELSE EmptyConfig
        p2 == IF ~hasOfficialThinking /\ supports /\ req.thinking_budget # <<>>
              THEN GenerationConfig(req.thinking_budget,
                       IF req.thinking_budget[1] # 0 THEN <<TRUE>> ELSE <<>>,
                       p1.maxOutputTokens)
              ELSE p1
        p3 == IF ~HasThinkingConfig(p2) /\ supports /\ req.budget_tokens # <<>>
              THEN GenerationConfig(req.budget_tokens, <<TRUE>>,
                                    p2.maxOutputTokens)
              ELSE p2
    IN  GenerationConfig(p3.thinkingBudget, p3.include_thoughts, req.max_tokens)

\* ConvertClaudeRequestToAntigravity, the generationConfig it builds
ConvertClaudeRequestToAntigravity(modelName, req) ==
    IF req.budget_tokens # <<>> /\ ModelSupportsThinking(modelName)
    THEN GenerationConfig(req.budget_tokens, <<TRUE>>, req.max_tokens)
    ELSE GenerationConfig(<<>>, <<>>, req.max_tokens)

DefaultThinkingBudget == 24576

ModelHasDefaultThinking(model) == ModelSupportsThinking(model)

ApplyDefaultThinkingIfNeeded(model, payload) ==
    IF ~ModelHasDefaultThinking(model) THEN payload
    ELSE LET start == IF model = "gemini-3-flash"
                      THEN ReasoningEffortBudgetMapping["minimal"]
                      ELSE DefaultThinkingBudget
             budget == NormalizeThinkingBudget(model, start)
             mt == IF payload.maxOutputTokens # <<>>
                   THEN payload.maxOutputTokens[1] ELSE 0
             newBudget == IF mt - 1 < 0 THEN 0 ELSE mt - 1
             capped == IF mt > 0 /\ budget >= mt /\ newBudget < budget
                       THEN newBudget ELSE budget
         IN  GenerationConfig(<<capped>>, <<TRUE>>, payload.maxOutputTokens)

StripThinkingConfigIfUnsupported(model, payload) ==
    IF ~ModelSupportsThinking(model) THEN DeleteThinkingConfig(payload)
    ELSE IF payload.thinkingBudget # <<>> /\ payload.thinkingBudget[1] <= 0
    THEN DeleteThinkingConfig(payload)
    ELSE payload

\* strings.Contains(strings.ToLower(modelName), "claude")
IsClaude(modelName) ==
    modelName \in {"claude-sonnet-4-5", "claude-sonnet-4-5-thinking",
                   "claude-opus-4-5-thinking", "claude-opus-4-5"}

normalizeClaudeThinkingNoMaxClamp(modelName, template) ==
    IF ~ModelSupportsThinking(modelName) THEN template
    ELSE IF template.thinkingBudget = <<>> THEN template
    ELSE LET normalized == NormalizeThinkingBudget(modelName,
                                                   template.thinkingBudget[1])
             given == /\ template.maxOutputTokens # <<>>
                      /\ template.maxOutputTokens[1] > 0
             mcfg == GetModelConfig(modelName)[1]
             setDefaultMax == ~given /\ mcfg.MaxCompletionTokens > 0
             effectiveMax == IF given THEN template.maxOutputTokens[1]
                             ELSE IF setDefaultMax THEN mcfg.MaxCompletionTokens
                             ELSE 0
             minBudget == mcfg.Thinking[1].Min
         IN  IF minBudget > 0 /\ normalized >= 0 /\ normalized < minBudget
             THEN DeleteThinkingConfig(template)
             ELSE GenerationConfig(<<normalized>>, template.include_thoughts,
                      IF setDefaultMax /\ effectiveMax > 0
                      THEN <<effectiveMax>> ELSE template.maxOutputTokens)

normalizeClaudeThinking(modelName, template) ==
    IF ~ModelSupportsThinking(modelName) THEN template
    ELSE IF template.thinkingBudget = <<>> THEN template
    ELSE LET raw == template.thinkingBudget[1]
             given == /\ template.maxOutputTokens # <<>>
                      /\ template.maxOutputTokens[1] > 0
             mcfg == GetModelConfig(modelName)[1]
             setDefaultMax == ~given /\ mcfg.MaxCompletionTokens > 0
             effectiveMax == IF given THEN template.maxOutputTokens[1]
                             ELSE IF setDefaultMax THEN mcfg.MaxCompletionTokens
                             ELSE 0
             clamped == NormalizeThinkingBudget(modelName, raw)
             normalized == IF effectiveMax > 0 /\ clamped >= effectiveMax
                           THEN effectiveMax - 1 ELSE clamped
             minBudget == mcfg.Thinking[1].Min
         IN  IF minBudget > 0 /\ normalized >= 0 /\ normalized < minBudget
             THEN DeleteThinkingConfig(template)
             ELSE GenerationConfig(<<normalized>>, template.include_thoughts,
                      IF setDefaultMax /\ effectiveMax > 0
                      THEN <<effectiveMax>> ELSE template.maxOutputTokens)

\* transformPayload, the generationConfig part. No translator writes
\* thinkingConfig.thinkingLevel, so that branch does not act.
transformPayload(modelName, payload) ==
    IF IsClaude(modelName) THEN normalizeClaudeThinking(modelName, payload)
    ELSE GenerationConfig(payload.thinkingBudget, payload.include_thoughts, <<>>)

\* chatCompletionsHandler and responsesHandler: translate, inject the
\* default, strip
chatCompletionsHandler ==
    /\ thinkPc = "received"
    /\ thinkReq.api = "openai"
    /\ LET modelName == thinkReq.model
           payload == ConvertOpenAIRequestToAntigravity(modelName, thinkReq)
       IN  thinkPayload' = StripThinkingConfigIfUnsupported(modelName,
                               ApplyDefaultThinkingIfNeeded(modelName, payload))
    /\ thinkPc' = "handled"
    /\ UNCHANGED thinkReq

\* messagesHandler: the same for the Claude API
messagesHandler ==
    /\ thinkPc = "received"
    /\ thinkReq.api = "claude"
    /\ LET modelName == thinkReq.model
           payload == ConvertClaudeRequestToAntigravity(modelName, thinkReq)
       IN  thinkPayload' = StripThinkingConfigIfUnsupported(modelName,
                               ApplyDefaultThinkingIfNeeded(modelName, payload))
    /\ thinkPc' = "handled"
    /\ UNCHANGED thinkReq

\* Executor.Execute / ExecuteStream: transformPayload, then the request goes
\* upstream
ExecuteTransform ==
    /\ thinkPc = "handled"
    /\ thinkPayload' = transformPayload(thinkReq.model, thinkPayload)
    /\ thinkPc' = "sent"
    /\ UNCHANGED thinkReq

\* the models a request names: those of modelConfigs and the handlers'
\* default for a request without a model
ThinkModels == DOMAIN modelConfigs \cup {"gemini-3-flash"}

Efforts == DOMAIN ReasoningEffortBudgetMapping

\* client budgets and max_tokens on both sides of the descriptors' bounds
ClientBudgets == {<<>>, <<512>>, <<8192>>}
ClientMaxTokens ==
    {<<>>, <<0>>, <<1>>, <<100>>, <<1024>>, <<1025>>, <<2000>>, <<70000>>}

ThinkRequests ==
    {ThinkRequest("openai", m, e, c, t, mt) :
        m \in ThinkModels, e \in {<<>>} \cup {<<x>> : x \in Efforts},
        c \in {<<>>, <<512>>}, t \in ClientBudgets, mt \in ClientMaxTokens}
    \cup
    {ThinkRequest("claude", m, <<>>, <<>>, t, mt) :
        m \in ThinkModels, t \in ClientBudgets, mt \in ClientMaxTokens}

ThinkStart ==
    /\ thinkPc = "received"
    /\ thinkPayload = EmptyConfig

ThinkInit ==
    /\ thinkReq \in ThinkRequests
    /\ ThinkStart

ThinkRest ==
    /\ thinkReq = ThinkRequest("openai", "gemini-3-flash", <<>>, <<>>, <<>>, <<>>)
    /\ ThinkStart

\* ------------------------------------------------------------------------
\* Streaming: ExecuteStream's reader goroutine and the handler's loop
\* ------------------------------------------------------------------------
\* A line of the body is its position and its text: "blank", "json" (a
\* data: line holding valid JSON), "usage" (valid JSON with usageMetadata
\* and no finishReason) or "invalid" (text that is not JSON, such as
\* data: [DONE]).
LineTexts == {"blank", "json", "usage", "invalid"}

Line(id, text) == [id |-> id, text |-> text]

\* FilterSSEUsageMetadata on a line: usageMetadata is deleted from a chunk that is
\* not terminal
FilterSSEUsageMetadataLine(line) ==
    IF line.text = "usage" THEN Line(line.id, "json") ELSE line

extractJSONPayloadUnchecked(line) ==
    IF line.text = "blank" THEN <<>> ELSE <<line>>

\* extractJSONPayload: <<>> for nil, else the payload
extractJSONPayload(line) ==
    IF line.text = "blank" THEN <<>>
    ELSE IF line.text = "invalid" THEN <<>>
    ELSE <<line>>

StreamChunk(data, err) == [Data |-> data, Err |-> err]

NoStreamChunk == StreamChunk(<<>>, FALSE)

ScanNoContext ==
    /\ readerPc = "scan"
    /\ \/ /\ readerPos < Len(streamBody.lines)
          /\ readerPos' = readerPos + 1
          /\ LET line == FilterSSEUsageMetadataLine(streamBody.lines[readerPos + 1])
                 payload == extractJSONPayload(line)
             IN  IF payload = <<>>
                 THEN UNCHANGED <<readerPc, readerChunk>>
                 ELSE /\ readerChunk' = StreamChunk(payload, FALSE)
                      /\ readerPc' = "send"
       \/ /\ readerPos = Len(streamBody.lines)
          /\ streamBody.end = "eof"
          /\ readerPc' = "close"
          /\ UNCHANGED <<readerPos, readerChunk>>
       \/ /\ readerPos = Len(streamBody.lines)
          /\ streamBody.end = "error"
          /\ readerChunk' = StreamChunk(<<>>, TRUE)
          /\ readerPc' = "sendErr"
          /\ UNCHANGED readerPos
    /\ UNCHANGED <<streamBody, streamCancelled, chanClosed, handlerPc,
                   handlerGot>>

\* one turn of the reader's loop: scanner.Scan returns the next line, or
\* false at the end of the body, on a read error, or once the context of
\* the upstream request is cancelled; a line without payload is skipped
Scan ==
    /\ readerPc = "scan"
    /\ \/ /\ readerPos < Len(streamBody.lines)
          /\ readerPos' = readerPos + 1
          /\ LET line == FilterSSEUsageMetadataLine(streamBody.lines[readerPos + 1])
                 payload == extractJSONPayload(line)
             IN  IF payload = <<>>
                 THEN UNCHANGED <<readerPc, readerChunk>>
                 ELSE /\ readerChunk' = StreamChunk(payload, FALSE)
                      /\ readerPc' = "send"
       \/ /\ readerPos = Len(streamBody.lines)
          /\ streamBody.end = "eof"
          /\ readerPc' = "close"
          /\ UNCHANGED <<readerPos, readerChunk>>
       \/ /\ \/ readerPos = Len(streamBody.lines) /\ streamBody.end = "error"
             \/ streamCancelled
          /\ readerChunk' = StreamChunk(<<>>, TRUE)
          /\ readerPc' = "sendErr"
          /\ UNCHANGED readerPos
    /\ UNCHANGED <<streamBody, streamCancelled, chanClosed, handlerPc,
                   handlerGot>>

\* out <- chunk meets the handler's range over the unbuffered channel; the
\* handler breaks out of its loop on an error chunk
SendChunk ==
    /\ readerPc \in {"send", "sendErr"}
    /\ handlerPc = "recv"
    /\ handlerGot' = Append(handlerGot, readerChunk)
    /\ handlerPc' = IF readerChunk.Err THEN "final" ELSE "write"
    /\ readerPc' = IF readerPc = "send" THEN "scan" ELSE "close"
    /\ readerChunk' = NoStreamChunk
    /\ UNCHANGED <<streamBody, streamCancelled, readerPos, chanClosed>>

\* the goroutine ends: the deferred Body.Close and close(out)
CloseChan ==
    /\ readerPc = "close"
    /\ chanClosed' = chanClosed + 1
    /\ readerPc' = "done"
    /\ UNCHANGED <<streamBody, streamCancelled, readerPos, readerChunk,
                   handlerPc, handlerGot>>

\* the handler translates the chunk and writes the events; a write to a
\* client that is gone fails and the error is dropped
HandlerWrite ==
    /\ handlerPc = "write"
    /\ handlerPc' = "recv"
    /\ UNCHANGED <<streamBody, streamCancelled, readerPc, readerPos,
                   readerChunk, chanClosed, handlerGot>>

\* the range over the channel ends when the channel is closed
HandlerRangeEnd ==
    /\ handlerPc = "recv"
    /\ chanClosed > 0
    /\ handlerPc' = "final"
    /\ UNCHANGED <<streamBody, streamCancelled, readerPc, readerPos,
                   readerChunk, chanClosed, handlerGot>>

\* the handler writes its closing event and returns
HandlerFinish ==
    /\ handlerPc = "final"
    /\ handlerPc' = "returned"
    /\ UNCHANGED <<streamBody, streamCancelled, readerPc, readerPos,
                   readerChunk, chanClosed, handlerGot>>

\* the client closes the connection: net/http cancels the request context
ClientDisconnect ==
    /\ ~streamCancelled
    /\ handlerPc # "returned"
    /\ streamCancelled' = TRUE
    /\ UNCHANGED <<streamBody, readerPc, readerPos, readerChunk, chanClosed,
                   handlerPc, handlerGot>>

\* bodies of up to MaxLines lines that end with EOF, end with a read
\* error, or stay open without another byte
BodiesOfLength(n) ==
    {[lines |-> [i \in 1..n |-> Line(i, f[i])], end |-> e] :
        f \in [1..n -> LineTexts], e \in {"eof", "error", "stall"}}

StreamBodies == UNION {BodiesOfLength(n) : n \in 0..MaxLines}

StreamStart ==
    /\ streamCancelled = FALSE
    /\ readerPc = "scan"
    /\ readerPos = 0
    /\ readerChunk = NoStreamChunk
    /\ chanClosed = 0
    /\ handlerPc = "recv"
    /\ handlerGot = <<>>

\* ExecuteStream has returned the channel: the upstream answered 2xx
StreamInit ==
    /\ streamBody \in StreamBodies
    /\ StreamStart

StreamRest ==
    /\ streamBody = [lines |-> <<>>, end |-> "eof"]
    /\ StreamStart

\* ------------------------------------------------------------------------
\* Request translators: tool calls and tool results
\* ------------------------------------------------------------------------
\* A string that the code splits on "-" is the sequence of its segments:
\* "search-1-2" is <<"search", "1", "2">>, "toolu_1" is <<"toolu_1">> and
\* the empty string is <<"">>.
Split(str) == str

\* strings.Join(segments, "-")
Join(segments) == IF segments = <<>> THEN <<"">> ELSE segments

\* a[lo:hi] of Go, lo and hi counted from 0
Slice(a, lo, hi) == SubSeq(a, lo + 1, hi)

ToolCall(id, name) == [id |-> id, name |-> name]

\* a part of a content: text, functionCall or functionResponse
ReqPart(kind, text, id, name) ==
    [kind |-> kind, text |-> text, id |-> id, name |-> name]

TextPart(text) == ReqPart("text", text, <<"">>, <<"">>)
FunctionCallPart(id, name) == ReqPart("functionCall", "", id, name)
FunctionResponsePart(id, name) == ReqPart("functionResponse", "", id, name)

ReqContent(role, parts) == [role |-> role, parts |-> parts]

\* the name the Anthropic translator gives the functionResponse of a
\* tool_result block
ClaudeResultName(toolCallID) ==
    LET toolCallIDs == Split(toolCallID)
    IN  IF Len(toolCallIDs) > 1
        THEN Join(Slice(toolCallIDs, 0, Len(toolCallIDs) - 2))
        ELSE toolCallID

\* ConvertClaudeRequestToAntigravity on an assistant message (text block,
\* tool_use blocks) followed by a user message of tool_result blocks
ClaudeRequestContents(turn) ==
    LET text == IF turn.content # <<>> THEN <<TextPart(turn.content[1])>>
                ELSE <<>>
        calls == [k \in 1..Len(turn.calls) |->
                     FunctionCallPart(turn.calls[k].id, turn.calls[k].name)]
        live == SelectSeq(turn.results, LAMBDA id : id # <<"">>)
        results == [k \in 1..Len(live) |->
                       FunctionResponsePart(live[k], ClaudeResultName(live[k]))]
    IN  <<ReqContent("model", text \o calls), ReqContent("user", results)>>

\* first pass of ConvertOpenAIRequestToAntigravity: id -> name, the last
\* call with an id wins
tcID2Name(calls) ==
    [id \in {calls[k].id : k \in {j \in 1..Len(calls) :
                 calls[j].id # <<"">> /\ calls[j].name # <<"">>}} |->
        LET last == CHOOSE k \in 1..Len(calls) :
                        /\ calls[k].id = id
                        /\ calls[k].name # <<"">>
                        /\ \A j \in (k + 1)..Len(calls) :
                               ~(calls[j].id = id /\ calls[j].name # <<"">>)
        IN  calls[last].name]

\* ConvertOpenAIRequestToAntigravity on an assistant message: the node is
\* appended once when content is a string, and again, with the same text
\* and the functionCall parts, when tool_calls is an array
OpenAIRequestContents(turn) ==
    LET text == IF turn.content # <<>> THEN <<TextPart(turn.content[1])>>
                ELSE <<>>
        calls == [k \in 1..Len(turn.calls) |->
                     FunctionCallPart(turn.calls[k].id, turn.calls[k].name)]
        names == tcID2Name(turn.calls)
        fIDs == SelectSeq([k \in 1..Len(turn.calls) |-> turn.calls[k].id],
                          LAMBDA id : id # <<"">>)
        known == SelectSeq(fIDs, LAMBDA id : id \in DOMAIN names)
        responses == [k \in 1..Len(known) |->
                         FunctionResponsePart(known[k], names[known[k]])]
    IN  (IF text # <<>> THEN <<ReqContent("model", text)>> ELSE <<>>)
        \o (IF turn.hasCalls THEN <<ReqContent("model", text \o calls)>>
            ELSE <<>>)
        \o (IF turn.hasCalls /\ responses # <<>>
            THEN <<ReqContent("user", responses)>> ELSE <<>>)

\* messagesHandler: the body goes through the Anthropic request translator
TranslateClaudeRequest ==
    /\ reqPc = "received"
    /\ reqApi = "claude"
    /\ reqContents' = ClaudeRequestContents(reqTurn)
    /\ reqPc' = "translated"
    /\ UNCHANGED <<reqApi, reqTurn>>

\* chatCompletionsHandler: the body goes through the OpenAI request
\* translator
TranslateOpenAIRequest ==
    /\ reqPc = "received"
    /\ reqApi = "openai"
    /\ reqContents' = OpenAIRequestContents(reqTurn)
    /\ reqPc' = "translated"
    /\ UNCHANGED <<reqApi, reqTurn>>

\* tool names, and ids: a client's own ids and ids of the shape
\* name-timestamp-counter
ToolNames == {<<"search">>, <<"get", "weather">>}
ToolIDs == {<<"toolu_1">>, <<"call", "1">>, <<"search", "1", "2">>,
            <<"get", "weather", "1", "2">>}

\* calls of one assistant message, each with an id of its own
ToolCallSeqs ==
    {calls \in UNION {[1..n -> {ToolCall(id, name) :
                                   id \in ToolIDs, name \in ToolNames}] :
                      n \in 0..MaxToolCalls} :
        \A i, j \in 1..Len(calls) : i # j => calls[i].id # calls[j].id}

\* an assistant turn: optional text, tool calls (hasCalls: the tool_calls
\* key is an array), and a result for every call, in call order
ReqTurns ==
    {[content |-> c, hasCalls |-> h, calls |-> calls,
      results |-> [k \in 1..Len(calls) |-> calls[k].id]] :
        c \in {<<>>, <<"hi">>}, calls \in ToolCallSeqs \ {<<>>},
        h \in {TRUE}}
    \cup
    {[content |-> c, hasCalls |-> h, calls |-> <<>>, results |-> <<>>] :
        c \in {<<>>, <<"hi">>}, h \in BOOLEAN}

ReqStart ==
    /\ reqPc = "received"
    /\ reqContents = <<>>

ReqInit ==
    /\ reqApi \in {"claude", "openai"}
    /\ reqTurn \in ReqTurns
    /\ ReqStart

ReqRest ==
    /\ reqApi = "openai"
    /\ reqTurn = [content |-> <<>>, hasCalls |-> FALSE, calls |-> <<>>,
                  results |-> <<>>]
    /\ ReqStart

\* ------------------------------------------------------------------------
\* OpenAI response translators: the usage block
\* ------------------------------------------------------------------------
\* usageMetadata of the upstream: every counter is optional, <<>> when the
\* key is absent
UsageMetadata(prompt, candidates, thoughts, total) ==
    [promptTokenCount |-> prompt, candidatesTokenCount |-> candidates,
     thoughtsTokenCount |-> thoughts, totalTokenCount |-> total]

\* Int() of a gjson Result: 0 for a key that does not exist
IntOf(result) == IF result = <<>> THEN 0 ELSE result[1]

\* the usage object of an OpenAI document: exists is FALSE when the
\* document has no usage key; reasoning_tokens stands for
\* completion_tokens_details.reasoning_tokens
Usage(exists, prompt, completion, total, reasoning) ==
    [exists |-> exists, prompt_tokens |-> prompt,
     completion_tokens |-> completion, total_tokens |-> total,
     reasoning_tokens |-> reasoning]

\* the chunk template of the streaming translator has no usage key
StreamTemplateUsage == Usage(FALSE, <<>>, <<>>, <<>>, <<>>)

\* the document template of the non-streaming translator
NonStreamTemplateUsage == Usage(TRUE, <<0>>, <<0>>, <<0>>, <<>>)

\* ConvertAntigravityResponseToOpenAI, the usage block
StreamUsage(meta) ==
    IF meta = <<>> THEN StreamTemplateUsage
    ELSE LET usageResult == meta[1]
             promptTokenCount == IntOf(usageResult.promptTokenCount)
             thoughtsTokenCount == IntOf(usageResult.thoughtsTokenCount)
         IN  Usage(TRUE,
                   <<promptTokenCount + thoughtsTokenCount>>,
                   IF usageResult.candidatesTokenCount # <<>>
                   THEN <<IntOf(usageResult.candidatesTokenCount)>> ELSE <<>>,
                   IF usageResult.totalTokenCount # <<>>
                   THEN <<IntOf(usageResult.totalTokenCount)>> ELSE <<>>,
                   IF thoughtsTokenCount > 0 THEN <<thoughtsTokenCount>>
                   ELSE <<>>)

\* ConvertAntigravityResponseToOpenAINonStream, the usage block
NonStreamUsage(meta) ==
    IF meta = <<>> THEN NonStreamTemplateUsage
    ELSE LET usage == meta[1]
             promptTokens == IntOf(usage.promptTokenCount)
             candidatesTokens == IntOf(usage.candidatesTokenCount)
             thoughtsTokens == IntOf(usage.thoughtsTokenCount)
             totalTokens == IntOf(usage.totalTokenCount)
         IN  Usage(TRUE, <<promptTokens>>, <<candidatesTokens>>,
                   <<totalTokens>>,
                   IF thoughtsTokens > 0 THEN <<thoughtsTokens>> ELSE <<>>)

\* handleStreamingOpenAI translates the chunk that carries the metadata
TranslateStreamUsage ==
    /\ "stream" \notin usageDone
    /\ usageStream' = StreamUsage(usageMeta)
    /\ usageDone' = usageDone \cup {"stream"}
    /\ UNCHANGED <<usageMeta, usageNonStream>>

\* chatCompletionsHandler translates the document that carries the same
\* metadata
TranslateNonStreamUsage ==
    /\ "nonstream" \notin usageDone
    /\ usageNonStream' = NonStreamUsage(usageMeta)
    /\ usageDone' = usageDone \cup {"nonstream"}
    /\ UNCHANGED <<usageMeta, usageStream>>

\* counters of the upstream
TokenCounts == {<<>>, <<0>>, <<3>>}

UsageMetadatas ==
    {<<>>} \cup {<<UsageMetadata(p, c, t, total)>> :
                    p \in TokenCounts, c \in TokenCounts,
                    t \in TokenCounts, total \in TokenCounts}

UsageStart ==
    /\ usageDone = {}
    /\ usageStream = StreamTemplateUsage
    /\ usageNonStream = NonStreamTemplateUsage

UsageInit ==
    /\ usageMeta \in UsageMetadatas
    /\ UsageStart

UsageRest ==
    /\ usageMeta = <<>>
    /\ UsageStart

\* ------------------------------------------------------------------------
\* Anthropic non-streaming response translator: content[]
\* ------------------------------------------------------------------------
\* a content block: a string builder's value is the sequence of the
\* strings written to it
ContentBlock(type, text, id) == [type |-> type, text |-> text, id |-> id]

\* the locals of ConvertAntigravityResponseToClaudeNonStream
DocAcc0 ==
    [contentBlocks |-> <<>>, textBuilder |-> <<>>, thinkingBuilder |-> <<>>,
     toolIDCounter |-> 0, hasToolCall |-> FALSE]

flushText(acc) ==
    IF acc.textBuilder = <<>> THEN acc
    ELSE [acc EXCEPT
            !.contentBlocks = Append(@, ContentBlock("text",
                                                     acc.textBuilder, 0)),
            !.textBuilder = <<>>]

flushThinking(acc) ==
    IF acc.thinkingBuilder = <<>> THEN acc
    ELSE [acc EXCEPT
            !.contentBlocks = Append(@, ContentBlock("thinking",
                                                     acc.thinkingBuilder, 0)),
            !.thinkingBuilder = <<>>]

\* one turn of the loop over the parts
DocPart(acc, part) ==
    IF part.hasText /\ part.text # ""
    THEN IF part.thought
         THEN [flushText(acc) EXCEPT
                  !.thinkingBuilder = Append(@, part.text)]
         ELSE [flushThinking(acc) EXCEPT
                  !.textBuilder = Append(@, part.text)]
    ELSE IF part.hasFC
    THEN LET flushed == flushText(flushThinking(acc))
         IN  [flushed EXCEPT
                !.hasToolCall = TRUE,
                !.toolIDCounter = @ + 1,
                !.contentBlocks =
                    Append(@, ContentBlock("tool_use", <<>>,
                                           flushed.toolIDCounter + 1))]
    ELSE acc

RECURSIVE DocLoop(_, _)
DocLoop(acc, parts) ==
    IF parts = <<>> THEN acc
    ELSE DocLoop(DocPart(acc, Head(parts)), Tail(parts))

\* ConvertAntigravityResponseToClaudeNonStream: content[] of the document
ConvertAntigravityResponseToClaudeNonStream(parts) ==
    flushText(flushThinking(DocLoop(DocAcc0, parts))).contentBlocks

\* handleNonStreamingClaude converts the upstream body
ConvertDocument ==
    /\ docPc = "received"
    /\ docContent' = ConvertAntigravityResponseToClaudeNonStream(docParts)
    /\ docPc' = "converted"
    /\ UNCHANGED docParts

\* upstream parts in every order
PartSeqs == UNION {[1..n -> Parts] : n \in 0..MaxParts}

DocStart ==
    /\ docPc = "received"
    /\ docContent = <<>>

DocInit ==
    /\ docParts \in PartSeqs
    /\ DocStart

DocRest ==
    /\ docParts = <<>>
    /\ DocStart

\* ------------------------------------------------------------------------
\* OpenAI streaming translator, whole chunks: text and tool call indexes
\* ------------------------------------------------------------------------
RECURSIVE OpenAILoop(_, _)
OpenAILoop(acc, parts) ==
    IF parts = <<>> THEN acc
    ELSE OpenAILoop(OpenAIPart(acc, Head(parts)), Tail(parts))

\* one call of ConvertAntigravityResponseToOpenAI on a chunk with the
\* given parts
ConvertAntigravityResponseToOpenAI(st, chunk, parts) ==
    OpenAIChunkFinish(OpenAILoop(OpenAIChunkStart(st, chunk), parts))

\* a concatenation of strings is the sequence of its non-empty pieces
Concat(str, piece) == IF piece = "" THEN str ELSE Append(str, piece)

RECURSIVE ConcatAll(_, _)
ConcatAll(str, pieces) ==
    IF pieces = <<>> THEN str
    ELSE ConcatAll(Concat(str, Head(pieces)), Tail(pieces))

\* the text of the parts of one kind, in part order
TextsOf(parts, thought) ==
    LET sel == SelectSeq(parts, LAMBDA p : p.hasText /\ p.thought = thought)
    IN  [k \in 1..Len(sel) |-> sel[k].text]

TextLog0 == [content |-> <<>>, reasoning_content |-> <<>>]

\* handleStreamingOpenAI: the next chunk of the channel is translated and
\* the one resulting line is written
TranslateDeltaChunk ==
    /\ deltaN < MaxChunks
    /\ \E parts \in PartSeqs :
       \E chunk \in {c \in UpstreamChunks : c.left = Len(parts)} :
          LET acc == ConvertAntigravityResponseToOpenAI(deltaState, chunk,
                                                        parts)
          IN  /\ deltaState' = acc.st
              /\ deltaLine' = acc.template
              /\ deltaUp' =
                   [content |-> ConcatAll(deltaUp.content,
                                          TextsOf(parts, FALSE)),
                    reasoning_content |->
                        ConcatAll(deltaUp.reasoning_content,
                                  TextsOf(parts, TRUE))]
              /\ deltaOut' =
                   [content |-> ConcatAll(deltaOut.content,
                                          acc.template.content),
                    reasoning_content |->
                        ConcatAll(deltaOut.reasoning_content,
                                  acc.template.reasoning_content)]
              /\ deltaIndexes' = deltaIndexes \o acc.template.tool_calls
    /\ deltaN' = deltaN + 1

DeltaInit ==
    /\ deltaState = OpenAIStreamState0
    /\ deltaN = 0
    /\ deltaUp = TextLog0
    /\ deltaOut = TextLog0
    /\ deltaIndexes = <<>>
    /\ deltaLine = Template0

\* ------------------------------------------------------------------------
\* The reader's usage filter, key by key
\* ------------------------------------------------------------------------
\* A JSON document of the upstream. format: "antigravity" when candidates
\* and usageMetadata sit under "response", "aistudio" when they sit at the
\* top. fin: candidates.0.finishReason (<<>> when absent, <<"">> when
\* empty). usage: the usageMetadata key exists. snake: a top-level
\* usage_metadata key exists.
Doc(format, fin, usage, snake) ==
    [format |-> format, fin |-> fin, usage |-> usage, snake |-> snake]

NoDoc == Doc("antigravity", <<>>, FALSE, FALSE)

\* a scanner line: "data:" prefix or none, and after it a JSON document
\* ("json"), text that is not valid JSON ("invalid") or nothing ("blank")
BodyLine(prefix, text, doc) == [prefix |-> prefix, text |-> text, doc |-> doc]

\* a filter that deletes only the top-level usageMetadata (mutant)
StripUsageMetadataTopLevelOnly(doc) ==
    LET finishReason == doc.fin
        hasUsage == doc.usage \/ doc.snake
    IN  IF finishReason # <<>> /\ finishReason[1] # ""
        THEN [doc |-> doc, changed |-> FALSE]
        ELSE IF ~hasUsage THEN [doc |-> doc, changed |-> FALSE]
        ELSE [doc |-> [doc EXCEPT
                          !.usage = IF doc.format = "aistudio" THEN FALSE
                                    ELSE @,
                          !.snake = FALSE],
              changed |-> TRUE]

\* StripUsageMetadataFromJSON on valid JSON: finishReason is looked up at
\* candidates.0.finishReason and response.candidates.0.finishReason, and
\* usageMetadata, response.usageMetadata and usage_metadata are deleted
StripUsageMetadataFromDoc(doc) ==
    LET finishReason == doc.fin
        hasUsage == doc.usage \/ doc.snake
    IN  IF finishReason # <<>> /\ finishReason[1] # ""
        THEN [doc |-> doc, changed |-> FALSE]
        ELSE IF ~hasUsage THEN [doc |-> doc, changed |-> FALSE]
        ELSE [doc |-> [doc EXCEPT !.usage = FALSE, !.snake = FALSE],
              changed |-> TRUE]

\* FilterSSEUsageMetadata on one scanner line: a data: line is rebuilt
\* around the cleaned JSON, a line without prefix is cleaned as raw JSON;
\* text that is not valid JSON is returned as it is
FilterSSEUsageMetadataBytes(line) ==
    IF line.text # "json" THEN line
    ELSE LET r == StripUsageMetadataFromDoc(line.doc)
         IN  IF r.changed THEN [line EXCEPT !.doc = r.doc] ELSE line

\* extractJSONPayload on the filtered line: <<>> for nil
extractJSONPayloadDoc(line) ==
    IF line.text = "json" THEN <<line.doc>> ELSE <<>>

\* one turn of the reader's loop: filter, extract, send or skip
ReaderTurn ==
    /\ filterPc = "scanned"
    /\ LET line == FilterSSEUsageMetadataBytes(filterLine)
           payload == extractJSONPayloadDoc(line)
       IN  IF payload = <<>>
           THEN /\ filterPc' = "skipped"
                /\ UNCHANGED filterChunk
           ELSE /\ filterPc' = "published"
                /\ filterChunk' = payload[1]
    /\ UNCHANGED filterLine

DocFinishReasons == {<<>>, <<"">>, <<"STOP">>, <<"MAX_TOKENS">>}

Docs ==
    {Doc(f, fin, u, s) : f \in {"antigravity", "aistudio"},
                          fin \in DocFinishReasons, u \in BOOLEAN,
                          s \in BOOLEAN}

BodyLines ==
    {BodyLine(p, "json", d) : p \in {"data:", ""}, d \in Docs}
    \cup {BodyLine(p, "invalid", NoDoc) : p \in {"data:", ""}}
    \cup {BodyLine(p, "blank", NoDoc) : p \in {"data:", ""}}

FilterStart ==
    /\ filterPc = "scanned"
    /\ filterChunk = NoDoc

FilterInit ==
    /\ filterLine \in BodyLines
    /\ FilterStart

FilterRest ==
    /\ filterLine = BodyLine("", "blank", NoDoc)
    /\ FilterStart

\* ------------------------------------------------------------------------
\* Account pool: selection and token refresh over time
\* ------------------------------------------------------------------------
\* AccountManager.toCredentials with every field the refresh touches: a new
\* Credentials object that holds copies of the account's fields
toCredentialsCopy(account) ==
    Credentials(account.AccessToken, account.RefreshToken, account.ExpiresIn,
                account.Timestamp, account.Expired)

\* AccountManager.Next: a copy of the current account, and the index
\* advanced round-robin
NextAccount ==
    /\ rfPc = "idle"
    /\ rfCreds' = toCredentialsCopy(rfAccounts[rfIndex])
    /\ rfAccount' = rfIndex
    /\ rfIndex' = (rfIndex + 1) % Cardinality(DOMAIN rfAccounts)
    /\ rfPc' = "selected"
    /\ UNCHANGED <<rfAccounts, rfNow, rfIssued, rfNeedless>>

\* 2xx answers of the token endpoint to a refresh
GoodTokenResponses ==
    [access_token : {"fresh"}, refresh_token : {"", "rotated"},
     expires_in : {refreshSkew + 2, refreshSkew + MaxTime + 1}]

\* Executor.ensureAccessToken on the credential in hand, with
\* EnsureValidToken and RefreshToken: the refresh writes the object Next
\* returned (and the credential file of the store), never
\* AccountManager.accounts
EnsurePoolToken ==
    /\ rfPc = "selected"
    /\ rfPc' = "idle"
    /\ IF ~IsExpired(rfCreds, rfNow) \/ rfCreds.RefreshToken = ""
       THEN UNCHANGED <<rfCreds, rfIssued, rfNeedless>>
       ELSE /\ rfNeedless' =
                  (rfNeedless
                   \/ (/\ rfIssued[rfAccount] # <<>>
                       /\ ~IsExpired(rfIssued[rfAccount][1], rfNow)))
            /\ \E ok \in BOOLEAN, resp \in GoodTokenResponses :
                  IF ok
                  THEN LET new == UpdateCredentials(rfCreds, resp, rfNow)
                       IN  /\ rfCreds' = new
                           /\ rfIssued' =
                                 [rfIssued EXCEPT ![rfAccount] = <<new>>]
                  ELSE UNCHANGED <<rfCreds, rfIssued>>
    /\ UNCHANGED <<rfAccounts, rfIndex, rfNow, rfAccount>>

\* a minute passes between two requests
RefreshTick ==
    /\ rfPc = "idle"
    /\ rfNow < MaxTime
    /\ rfNow' = rfNow + 1
    /\ UNCHANGED <<rfAccounts, rfIndex, rfPc, rfAccount, rfCreds, rfIssued,
                   rfNeedless>>

\* accounts of accounts.json: a token that is expired, one that expires
\* during the run, one that stays valid
PoolAccounts ==
    {Credentials("stale", "refresh", 0, 0, e) :
        e \in {ExpiredEmpty, ExpiredAt(refreshSkew + 2),
               ExpiredAt(refreshSkew + MaxTime + 1)}}

\* AccountManager.Load of a pool of 1..MaxAccounts accounts, indexed from 0
RefreshInit ==
    /\ \E n \in 1..MaxAccounts :
          /\ rfAccounts \in [0..(n - 1) -> PoolAccounts]
          /\ rfIssued = [i \in 0..(n - 1) |-> <<>>]
    /\ rfIndex = 0
    /\ rfNow = 1
    /\ rfPc = "idle"
    /\ rfAccount = 0
    /\ rfCreds = Credentials("", "", 0, 0, ExpiredEmpty)
    /\ rfNeedless = FALSE

RefreshRest ==
    /\ rfAccounts = [i \in {0} |-> Credentials("", "", 0, 0, ExpiredEmpty)]
    /\ rfIssued = [i \in {0} |-> <<>>]
    /\ rfIndex = 0
    /\ rfNow = 1
    /\ rfPc = "idle"
    /\ rfAccount = 0
    /\ rfCreds = Credentials("", "", 0, 0, ExpiredEmpty)
    /\ rfNeedless = FALSE

\* ------------------------------------------------------------------------
\* Specifications: one per subsystem, the others at rest
\* ------------------------------------------------------------------------
OpenAIInit ==
    /\ openaiRoute \in {"chat", "responses"}
    /\ OpenAIStart

OpenAIRest ==
    /\ openaiRoute = "chat"
    /\ OpenAIStart

PoolInit ==
    /\ poolFile \in PoolFiles
    /\ PoolStart

PoolRest ==
    /\ poolFile = [n |-> 0, current_index |-> 0]
    /\ PoolStart

IngressRest ==
    /\ cfg = [APIKeys |-> {}, RateLimit |-> 0, DataDir |-> ""]
    /\ keyStore = NoKeyStore
    /\ hasCreds = FALSE
    /\ IngressStart

KeysRest ==
    /\ masterSecret = ""
    /\ keysFile = <<>>
    /\ issued = {}
    /\ revoked = {}
    /\ keyOp = NoOp

notClaude == <<openaiVars, poolVars, ingressVars, keysVars, execVars
    , tokenVars, shareVars, thinkVars, streamVars, reqVars, usageVars
    , docVars, deltaVars, filterVars, rfVars>>
notOpenAI == <<claudeVars, poolVars, ingressVars, keysVars, execVars
    , tokenVars, shareVars, thinkVars, streamVars, reqVars, usageVars
    , docVars, deltaVars, filterVars, rfVars>>
notPool == <<claudeVars, openaiVars, ingressVars, keysVars, execVars
    , tokenVars, shareVars, thinkVars, streamVars, reqVars, usageVars
    , docVars, deltaVars, filterVars, rfVars>>
notIngress == <<claudeVars, openaiVars, poolVars, keysVars, execVars
    , tokenVars, shareVars, thinkVars, streamVars, reqVars, usageVars
    , docVars, deltaVars, filterVars, rfVars>>
notKeys == <<claudeVars, openaiVars, poolVars, execVars, tokenVars
    , shareVars, thinkVars, streamVars, reqVars, usageVars, docVars
    , deltaVars, filterVars, rfVars>>
notExec == <<claudeVars, openaiVars, poolVars, ingressVars, keysVars
    , tokenVars, shareVars, thinkVars, streamVars, reqVars, usageVars
    , docVars, deltaVars, filterVars, rfVars>>
notToken == <<claudeVars, openaiVars, poolVars, ingressVars, keysVars
    , execVars, shareVars, thinkVars, streamVars, reqVars, usageVars
    , docVars, deltaVars, filterVars, rfVars>>
notShare == <<claudeVars, openaiVars, poolVars, ingressVars, keysVars
    , execVars, tokenVars, thinkVars, streamVars, reqVars, usageVars
    , docVars, deltaVars, filterVars, rfVars>>
notThink == <<claudeVars, openaiVars, poolVars, ingressVars, keysVars
    , execVars, tokenVars, shareVars, streamVars, reqVars, usageVars
    , docVars, deltaVars, filterVars, rfVars>>
notStream == <<claudeVars, openaiVars, poolVars, ingressVars, keysVars
    , execVars, tokenVars, shareVars, thinkVars, reqVars, usageVars, docVars
    , deltaVars, filterVars, rfVars>>
notReq == <<claudeVars, openaiVars, poolVars, ingressVars, keysVars
    , execVars, tokenVars, shareVars, thinkVars, streamVars, usageVars
    , docVars, deltaVars, filterVars, rfVars>>
notUsage == <<claudeVars, openaiVars, poolVars, ingressVars, keysVars
    , execVars, tokenVars, shareVars, thinkVars, streamVars, reqVars
    , docVars, deltaVars, filterVars, rfVars>>
notDoc == <<claudeVars, openaiVars, poolVars, ingressVars, keysVars
    , execVars, tokenVars, shareVars, thinkVars, streamVars, reqVars
    , usageVars, deltaVars, filterVars, rfVars>>
notDelta == <<claudeVars, openaiVars, poolVars, ingressVars, keysVars
    , execVars, tokenVars, shareVars, thinkVars, streamVars, reqVars
    , usageVars, docVars, filterVars, rfVars>>
notFilter == <<claudeVars, openaiVars, poolVars, ingressVars, keysVars
    , execVars, tokenVars, shareVars, thinkVars, streamVars, reqVars
    , usageVars, docVars, deltaVars, rfVars>>
notRefresh == <<claudeVars, openaiVars, poolVars, ingressVars, keysVars
    , execVars, tokenVars, shareVars, thinkVars, streamVars, reqVars
    , usageVars, docVars, deltaVars, filterVars>>

NextClaude ==
    \/ ClaudeOpenFail /\ UNCHANGED notClaude
    \/ ClaudeOpen /\ UNCHANGED notClaude
    \/ ClaudeChunkBegin /\ UNCHANGED notClaude
    \/ ClaudePartStep /\ UNCHANGED notClaude
    \/ ClaudeChunkEnd /\ UNCHANGED notClaude
    \/ ClaudeBodyEnd /\ UNCHANGED notClaude
    \/ ClaudeReaderError /\ UNCHANGED notClaude

NextOpenAI ==
    \/ OpenAIOpenFail /\ UNCHANGED notOpenAI
    \/ OpenAIOpen /\ UNCHANGED notOpenAI
    \/ OpenAIChunkBegin /\ UNCHANGED notOpenAI
    \/ OpenAIPartStep /\ UNCHANGED notOpenAI
    \/ OpenAIChunkEnd /\ UNCHANGED notOpenAI
    \/ OpenAIBodyEnd /\ UNCHANGED notOpenAI
    \/ OpenAIReaderError /\ UNCHANGED notOpenAI

NextPool ==
    \/ Load /\ UNCHANGED notPool
    \/ \E h \in Handlers : NextLock(h) /\ UNCHANGED notPool
    \/ \E h \in Handlers : NextRead(h) /\ UNCHANGED notPool
    \/ \E h \in Handlers : NextAdvance(h) /\ UNCHANGED notPool
    \/ \E h \in Handlers : NextReturn(h) /\ UNCHANGED notPool

NextIngress ==
    \/ Serve /\ UNCHANGED notIngress
    \/ Refill /\ UNCHANGED notIngress

NextKeys ==
    \/ GenerateKeyRequest /\ UNCHANGED notKeys
    \/ RevokeKeyRequest /\ UNCHANGED notKeys
    \/ ServeKeyed /\ UNCHANGED notKeys

NextExec ==
    \/ EnsureToken /\ UNCHANGED notExec
    \/ Attempt /\ UNCHANGED notExec
    \/ Respond /\ UNCHANGED notExec

NextToken ==
    \/ EnsureAccessTokenCall /\ UNCHANGED notToken
    \/ Tick /\ UNCHANGED notToken

NextShare ==
    \/ \E h \in Handlers : Select(h) /\ UNCHANGED notShare
    \/ \E h \in Handlers : CheckToken(h) /\ UNCHANGED notShare
    \/ \E h \in Handlers : RefreshReturns(h) /\ UNCHANGED notShare
    \/ \E h \in Handlers : WriteToken(h) /\ UNCHANGED notShare
    \/ \E h \in Handlers : WriteExpiry(h) /\ UNCHANGED notShare
    \/ \E h \in Handlers : Persist(h) /\ UNCHANGED notShare
    \/ \E h \in Handlers : Send(h) /\ UNCHANGED notShare

NextThink ==
    \/ chatCompletionsHandler /\ UNCHANGED notThink
    \/ messagesHandler /\ UNCHANGED notThink
    \/ ExecuteTransform /\ UNCHANGED notThink

NextStream ==
    \/ Scan /\ UNCHANGED notStream
    \/ SendChunk /\ UNCHANGED notStream
    \/ CloseChan /\ UNCHANGED notStream
    \/ HandlerWrite /\ UNCHANGED notStream
    \/ HandlerRangeEnd /\ UNCHANGED notStream
    \/ HandlerFinish /\ UNCHANGED notStream
    \/ ClientDisconnect /\ UNCHANGED notStream

NextReq ==
    \/ TranslateClaudeRequest /\ UNCHANGED notReq
    \/ TranslateOpenAIRequest /\ UNCHANGED notReq

NextUsage ==
    \/ TranslateStreamUsage /\ UNCHANGED notUsage
    \/ TranslateNonStreamUsage /\ UNCHANGED notUsage

NextDoc ==
    \/ ConvertDocument /\ UNCHANGED notDoc

NextDelta ==
    \/ TranslateDeltaChunk /\ UNCHANGED notDelta

NextFilter ==
    \/ ReaderTurn /\ UNCHANGED notFilter

NextRefresh ==
    \/ NextAccount /\ UNCHANGED notRefresh
    \/ EnsurePoolToken /\ UNCHANGED notRefresh
    \/ RefreshTick /\ UNCHANGED notRefresh

InitClaude == ClaudeInit /\ OpenAIRest /\ PoolRest /\ IngressRest
    /\ KeysRest /\ ExecRest /\ TokenRest /\ ShareRest /\ ThinkRest
    /\ StreamRest /\ ReqRest /\ UsageRest /\ DocRest /\ DeltaInit
    /\ FilterRest /\ RefreshRest
InitOpenAI == OpenAIInit /\ ClaudeInit /\ PoolRest /\ IngressRest
    /\ KeysRest /\ ExecRest /\ TokenRest /\ ShareRest /\ ThinkRest
    /\ StreamRest /\ ReqRest /\ UsageRest /\ DocRest /\ DeltaInit
    /\ FilterRest /\ RefreshRest
InitPool == PoolInit /\ ClaudeInit /\ OpenAIRest /\ IngressRest /\ KeysRest
    /\ ExecRest /\ TokenRest /\ ShareRest /\ ThinkRest /\ StreamRest
    /\ ReqRest /\ UsageRest /\ DocRest /\ DeltaInit /\ FilterRest
    /\ RefreshRest
InitIngress == IngressInit /\ ClaudeInit /\ OpenAIRest /\ PoolRest
    /\ KeysRest /\ ExecRest /\ TokenRest /\ ShareRest /\ ThinkRest
    /\ StreamRest /\ ReqRest /\ UsageRest /\ DocRest /\ DeltaInit
    /\ FilterRest /\ RefreshRest
InitKeys == KeysInit /\ ClaudeInit /\ OpenAIRest /\ PoolRest /\ ExecRest
    /\ TokenRest /\ ShareRest /\ ThinkRest /\ StreamRest /\ ReqRest
    /\ UsageRest /\ DocRest /\ DeltaInit /\ FilterRest /\ RefreshRest
InitExec == ExecInit /\ ClaudeInit /\ OpenAIRest /\ PoolRest /\ IngressRest
    /\ KeysRest /\ TokenRest /\ ShareRest /\ ThinkRest /\ StreamRest
    /\ ReqRest /\ UsageRest /\ DocRest /\ DeltaInit /\ FilterRest
    /\ RefreshRest
InitToken == TokenInit /\ ClaudeInit /\ OpenAIRest /\ PoolRest
    /\ IngressRest /\ KeysRest /\ ExecRest /\ ShareRest /\ ThinkRest
    /\ StreamRest /\ ReqRest /\ UsageRest /\ DocRest /\ DeltaInit
    /\ FilterRest /\ RefreshRest
InitShare == ShareInit /\ ClaudeInit /\ OpenAIRest /\ PoolRest
    /\ IngressRest /\ KeysRest /\ ExecRest /\ TokenRest /\ ThinkRest
    /\ StreamRest /\ ReqRest /\ UsageRest /\ DocRest /\ DeltaInit
    /\ FilterRest /\ RefreshRest
InitThink == ThinkInit /\ ClaudeInit /\ OpenAIRest /\ PoolRest
    /\ IngressRest /\ KeysRest /\ ExecRest /\ TokenRest /\ ShareRest
    /\ StreamRest /\ ReqRest /\ UsageRest /\ DocRest /\ DeltaInit
    /\ FilterRest /\ RefreshRest
InitStream == StreamInit /\ ClaudeInit /\ OpenAIRest /\ PoolRest
    /\ IngressRest /\ KeysRest /\ ExecRest /\ TokenRest /\ ShareRest
    /\ ThinkRest /\ ReqRest /\ UsageRest /\ DocRest /\ DeltaInit
    /\ FilterRest /\ RefreshRest
InitReq == ReqInit /\ ClaudeInit /\ OpenAIRest /\ PoolRest /\ IngressRest
    /\ KeysRest /\ ExecRest /\ TokenRest /\ ShareRest /\ ThinkRest
    /\ StreamRest /\ UsageRest /\ DocRest /\ DeltaInit /\ FilterRest
    /\ RefreshRest
InitUsage == UsageInit /\ ClaudeInit /\ OpenAIRest /\ PoolRest
    /\ IngressRest /\ KeysRest /\ ExecRest /\ TokenRest /\ ShareRest
    /\ ThinkRest /\ StreamRest /\ ReqRest /\ DocRest /\ DeltaInit
    /\ FilterRest /\ RefreshRest
InitDoc == DocInit /\ ClaudeInit /\ OpenAIRest /\ PoolRest /\ IngressRest
    /\ KeysRest /\ ExecRest /\ TokenRest /\ ShareRest /\ ThinkRest
    /\ StreamRest /\ ReqRest /\ UsageRest /\ DeltaInit /\ FilterRest
    /\ RefreshRest
InitDelta == DeltaInit /\ ClaudeInit /\ OpenAIRest /\ PoolRest
    /\ IngressRest /\ KeysRest /\ ExecRest /\ TokenRest /\ ShareRest
    /\ ThinkRest /\ StreamRest /\ ReqRest /\ UsageRest /\ DocRest
    /\ FilterRest /\ RefreshRest
InitFilter == FilterInit /\ ClaudeInit /\ OpenAIRest /\ PoolRest
    /\ IngressRest /\ KeysRest /\ ExecRest /\ TokenRest /\ ShareRest
    /\ ThinkRest /\ StreamRest /\ ReqRest /\ UsageRest /\ DocRest
    /\ DeltaInit /\ RefreshRest
InitRefresh == RefreshInit /\ ClaudeInit /\ OpenAIRest /\ PoolRest
    /\ IngressRest /\ KeysRest /\ ExecRest /\ TokenRest /\ ShareRest
    /\ ThinkRest /\ StreamRest /\ ReqRest /\ UsageRest /\ DocRest
    /\ DeltaInit /\ FilterRest

SpecClaude == InitClaude /\ [][NextClaude]_vars
SpecOpenAI == InitOpenAI /\ [][NextOpenAI]_vars
SpecPool == InitPool /\ [][NextPool]_vars
SpecIngress == InitIngress /\ [][NextIngress]_vars
SpecKeys == InitKeys /\ [][NextKeys]_vars
SpecExec == InitExec /\ [][NextExec]_vars
SpecToken == InitToken /\ [][NextToken]_vars
SpecShare == InitShare /\ [][NextShare]_vars
SpecThink == InitThink /\ [][NextThink]_vars
SpecStream == InitStream /\ [][NextStream]_vars
SpecReq == InitReq /\ [][NextReq]_vars
SpecUsage == InitUsage /\ [][NextUsage]_vars
SpecDoc == InitDoc /\ [][NextDoc]_vars
SpecDelta == InitDelta /\ [][NextDelta]_vars
SpecFilter == InitFilter /\ [][NextFilter]_vars
SpecRefresh == InitRefresh /\ [][NextRefresh]_vars

\* The Go scheduler runs every goroutine that can take a step, and the HTTP
\* transport ends a body read whose request context is cancelled. Neither
\* the upstream nor the client is obliged to do anything.
FairStream ==
    /\ WF_vars(Scan /\ UNCHANGED notStream)
    /\ WF_vars(SendChunk /\ UNCHANGED notStream)
    /\ WF_vars(CloseChan /\ UNCHANGED notStream)
    /\ WF_vars(HandlerWrite /\ UNCHANGED notStream)
    /\ WF_vars(HandlerRangeEnd /\ UNCHANGED notStream)
    /\ WF_vars(HandlerFinish /\ UNCHANGED notStream)

SpecStreamFair == InitStream /\ [][NextStream]_vars /\ FairStream

\* ------------------------------------------------------------------------
\* Properties of the OpenAI event stream
\* ------------------------------------------------------------------------

\* C3: on the chat-completions and the responses route, "data: [DONE]" is
\* written exactly once per opened stream, after every translated chunk:
\* never twice, never followed by a chunk, absent while the loop over the
\* channel runs, and present once the handler has returned, whether the
\* loop ended with the channel closed or with an error chunk.
C3_DoneExactlyOnceLast ==
    LET h == OpenAIAfter
    IN  /\ h.nDone <= 1
        /\ h.nDone = 1 => h.last = "done"
        /\ openaiPc \in {"streaming", "parts"} => h.nDone = 0
        /\ openaiPc = "done" => h.nDone = 1
        /\ openaiPc = "failed" => h.nDone = 0 /\ h.nChunks = 0

\* an error chunk ended a stream that had already carried chunks
C3_Witness ==
    /\ openaiPc = "done"
    /\ openaiSeen.end = "error"
    /\ OpenAIAfter.nChunks >= 2
    /\ OpenAIAfter.nDone = 1

\* C4: once a chunk of the stream has carried a functionCall part, the chunk
\* that carries the finishReason is written with finish_reason "tool_calls",
\* also when that chunk itself holds no functionCall.
C4_ToolCallsFinishReason ==
    (/\ openaiPc = "streaming"
     /\ openaiWire # <<>>
     /\ openaiChunk.hasFin
     /\ openaiSeen.earlier)
        => openaiWire[1].chunk.finish_reason = "tool_calls"

\* ------------------------------------------------------------------------
\* Properties of the account pool
\* ------------------------------------------------------------------------
RECURSIVE SumServed(_)
SumServed(n) == IF n = 0 THEN 0 ELSE served[n] + SumServed(n - 1)

\* C8: with K accounts and N calls of Next returned, every account was
\* returned floor(N/K) or ceil(N/K) times; the calls read the cursor values
\* cursor0, cursor0+1, ... (mod K) one after the other, none reading the
\* value another call read before it advanced; every call that has advanced
\* moved the cursor by one, so that with no call in progress the cursor is
\* (cursor0 + N) mod K.
C8_RoundRobinFair ==
    poolLoaded = "yes" =>
        LET K == Len(accounts)
            N == SumServed(MaxAccounts)
            reading == Cardinality({h \in Handlers : nextPc[h] = "read"})
        IN  /\ \A a \in 1..K :
                  served[a] \in {N \div K, (N + K - 1) \div K}
            /\ \A a \in (K + 1)..MaxAccounts : served[a] = 0
            /\ \A i \in 1..Len(reads) : reads[i] = (cursor0 + i - 1) % K
            /\ currentIndex = (cursor0 + Len(reads) - reading) % K
            /\ (\A h \in Handlers : nextPc[h] = "idle")
                  => /\ N = Len(reads)
                     /\ currentIndex = (cursor0 + N) % K

\* three accounts, a cursor that does not start at 0, and more calls than
\* accounts: floor and ceiling differ
C8_Witness ==
    /\ poolLoaded = "yes"
    /\ Len(accounts) = 3
    /\ cursor0 = 2
    /\ SumServed(MaxAccounts) = 4
    /\ \A h \in Handlers : nextPc[h] = "idle"

\* C9: once Load has succeeded the cursor is a valid index of the account
\* list, 0 <= currentIndex < len(accounts), whatever current_index the file
\* held, and every step of Next keeps it so.
C9_CursorInBounds ==
    poolLoaded = "yes" =>
        /\ currentIndex >= 0
        /\ currentIndex < Len(accounts)

\* the file held a negative current_index and the cursor has wrapped around
C9_Witness ==
    /\ poolLoaded = "yes"
    /\ poolFile.current_index < 0
    /\ Len(accounts) = 2
    /\ Len(reads) >= 3
    /\ currentIndex = 1

\* ------------------------------------------------------------------------
\* Properties of the ingress
\* ------------------------------------------------------------------------
\* the key is a key of the key store restricted to a list of models that
\* does not hold the model the body asks for
ModelDenied(req) ==
    LET key == extractAPIKey(req)
    IN  /\ keyStore.present
        /\ key \notin cfg.APIKeys
        /\ key \in DOMAIN keyStore.keys
        /\ keyStore.keys[key].AllowedModels # {}
        /\ req.model # ""
        /\ req.model \notin keyStore.keys[key].AllowedModels

\* C10: a POST to /v1/chat/completions, /v1/responses or /v1/messages that
\* the key validation and the rate limiter let through is answered 403
\* permission_error, with neither the handler nor an upstream call run,
\* exactly when its key is a restricted key of the key store and the body's
\* model is non-empty and not in the key's allowed_models.
C10_ModelAccessGate ==
    (/\ ingN > 0
     /\ ingReq.method = "POST"
     /\ ingReq.path \in PostPaths
     /\ ingResp.by \notin {"corsMiddleware", "rateLimitMiddleware",
                           "apiKeyAuth"})
        => ((/\ ingResp.status = 403
             /\ ingResp.type = "permission_error"
             /\ ~ingRan
             /\ ~ingUpstream)
            <=> ModelDenied(ingReq))

\* ------------------------------------------------------------------------
\* Properties of API-key validation and of the key store
\* ------------------------------------------------------------------------

C13_AdminNeedsMasterSecret ==
    keyOp.op = "generateKeyHandler" =>
        /\ masterSecret = "" =>
                /\ keyOp.status = 503
                /\ keyOp.type = "configuration_error"
                /\ ~keyOp.ran
                /\ keyStore.keys = keyOp.before
        /\ (masterSecret # "" /\ keyOp.bearer # masterSecret) =>
                /\ keyOp.status = 401
                /\ keyOp.type = "authentication_error"
                /\ ~keyOp.ran
                /\ keyStore.keys = keyOp.before

\* C16: whatever Generate and Revoke calls came before, Validate(k) holds
\* exactly for the keys a successful Generate returned and no successful
\* Revoke removed since; it holds for the key Generate has just returned and
\* fails for the key Revoke has just removed.
C16_ValidateTracksGenerateRevoke ==
    keyStore.present =>
        /\ \A k \in ClientKeys : Validate(k) <=> k \in issued
        /\ (keyOp.op = "generateKeyHandler" /\ keyOp.called /\ ~keyOp.err)
                => Validate(keyOp.key)
        /\ (keyOp.op = "revokeKeyHandler" /\ keyOp.called /\ ~keyOp.err)
                => ~Validate(keyOp.key)

\* Revoke has just removed one key while another stays valid
C16_Witness ==
    /\ keyOp.op = "revokeKeyHandler"
    /\ keyOp.called
    /\ ~keyOp.err
    /\ keyOp.key \in DOMAIN keyOp.before
    /\ ~Validate(keyOp.key)
    /\ \E k \in StoreKeys : Validate(k)

\* C17: a Generate or Revoke that returns an error leaves the keys in memory
\* as they were before the call: the key of a Generate whose save failed is
\* not valid, the key of a Revoke whose save failed is still valid, and a
\* Revoke of a key the store does not hold returns an error.
C17_FailedMutationRollsBack ==
    (keyOp.op \in {"generateKeyHandler", "revokeKeyHandler"} /\ keyOp.called)
        => /\ keyOp.err => keyStore.keys = keyOp.before
           /\ (keyOp.err /\ keyOp.op = "generateKeyHandler")
                   => ~Validate(keyOp.key)
           /\ (keyOp.err /\ keyOp.op = "revokeKeyHandler")
                   => (Validate(keyOp.key) <=> keyOp.key \in DOMAIN keyOp.before)
           /\ (keyOp.op = "revokeKeyHandler"
                   /\ keyOp.key \notin DOMAIN keyOp.before) => keyOp.err

\* the save of a Generate failed in a store that already held a key
C17_Witness ==
    /\ keyOp.op = "generateKeyHandler"
    /\ keyOp.called
    /\ keyOp.err
    /\ DOMAIN keyOp.before # {}
    /\ keyStore.keys = keyOp.before
    /\ keysFile = keyOp.before

\* ------------------------------------------------------------------------
\* Properties of the order of the ingress layers and of the rate limiter
\* ------------------------------------------------------------------------

\* the key's rate_limit in the key store when it is positive, else the
\* global limit
EffectiveLimit(req) ==
    LET key == extractAPIKey(req)
    IN  IF /\ keyStore.present
           /\ key \in DOMAIN keyStore.keys
           /\ keyStore.keys[key].RateLimit > 0
        THEN keyStore.keys[key].RateLimit
        ELSE cfg.RateLimit

\* C12: key validation runs before the rate limiter: a request answered 401
\* by the validation layer has no limiter entry under its key or client IP
\* (the key store and the static keys being fixed, no earlier request under
\* that key can have made one), and a request answered 429 by the limiter
\* is one the validation layer had let through.
C12_ValidationBeforeRateLimit ==
    ingN > 0 =>
        /\ ingResp.by = "apiKeyAuth" =>
                LimiterKey(ingReq) \notin DOMAIN limiters
        /\ ingResp.by = "rateLimitMiddleware" =>
                apiKeyAuth(ingReq) = Pass

\* C14: the requests of one key (or client IP) that reach a handler with no
\* time passing between them are at most its effective limit N when N > 0,
\* what the limiter turns away is answered 429 rate_limit_error, and the
\* limiter turns nothing away under an effective limit of 0.
C14_AtMostNWithoutRefill ==
    ingN > 0 =>
        /\ (ingRan /\ EffectiveLimit(ingReq) > 0) =>
                ingStreak.n <= EffectiveLimit(ingReq)
        /\ ingResp.by = "rateLimitMiddleware" =>
                /\ ingResp.status = 429
                /\ ingResp.type = "rate_limit_error"
                /\ EffectiveLimit(ingReq) > 0

\* C15: a request that reached its handler or was turned away by the rate
\* limiter was limited under the effective limit of its key: when that
\* limit is positive, the limiter kept for the key has it as its burst.
C15_EffectiveLimitEnforced ==
    (/\ ingN > 0
     /\ (ingRan \/ ingResp.by = "rateLimitMiddleware")
     /\ EffectiveLimit(ingReq) > 0)
        => /\ LimiterKey(ingReq) \in DOMAIN limiters
           /\ limiters[LimiterKey(ingReq)].burst = EffectiveLimit(ingReq)

\* ------------------------------------------------------------------------
\* Properties of the executor
\* ------------------------------------------------------------------------

\* C18: once Execute or ExecuteStream has a token and has returned, a
\* credential that pins a base URL has seen exactly one attempt; an unpinned
\* one has seen daily first and prod at most once after it, prod being
\* attempted exactly when the attempt on daily ended in a transport error or
\* in HTTP 429; any other non-2xx answer of daily is returned as an error
\* after that one attempt; and a 429 of daily followed by a 2xx of prod is
\* returned as prod's response without an error.
C18_BaseURLFallback ==
    (execPc \in {"returned", "responded"} /\ execToken # "") =>
        LET n == Len(execAttempts)
            first == execAttempts[1]
            second == execAttempts[2]
        IN  /\ n >= 1
            /\ execCreds.BaseURL # "" => n = 1
            /\ execCreds.BaseURL = "" =>
                /\ n <= 2
                /\ first.url = BaseURLDaily
                /\ n = 2 => second.url = BaseURLProd
                /\ n = 2 <=> (first.do = "error" \/ first.status = 429)
                /\ (first.do = "ok" /\ ~Is2xx(first.status)
                        /\ first.status # 429)
                       => (n = 1 /\ execResult.err)
                /\ (n = 2 /\ first.status = 429 /\ second.do = "ok"
                        /\ Is2xx(second.status)
                        /\ (execStream \/ second.read))
                       => /\ ~execResult.err
                          /\ execResult.hasResp
                          /\ execResult.status = second.status

\* C19: when the last attempt was answered with a non-2xx status whose body
\* was read, the handler answers the client with that status, on the
\* streaming path as on the non-streaming one.
C19_UpstreamStatusSurfaced ==
    (execPc = "responded" /\ execAttempts # <<>>) =>
        LET last == execAttempts[Len(execAttempts)]
        IN  (last.do = "ok" /\ ~Is2xx(last.status) /\ last.read)
                => clientStatus = last.status

\* C20: when the credential is expired and its refresh failed, the request
\* has still been sent upstream, carrying the stale access token.
C20_StaleTokenDispatched ==
    (/\ execPc = "responded"
     /\ execRefresh \in {"noRefreshToken", "transport", "non2xx",
                         "unparsable"}
     /\ execCreds.AccessToken # "")
        => /\ execAttempts # <<>>
           /\ execAttempts[1].token = execCreds.AccessToken

\* ------------------------------------------------------------------------
\* Properties of token expiry and refresh
\* ------------------------------------------------------------------------

\* C21: IsExpired holds exactly when no expiry can be determined or the
\* current time plus 50 minutes is at or after the expiry, the instant
\* now + 50 minutes = expiry included; and ensureAccessToken attempts a
\* refresh exactly when IsExpired holds or the access token is empty.
C21_ExpiryAndRefresh ==
    tokLast.called =>
        LET c == tokLast.before
            expiry == TokenExpiry(c)
        IN  /\ tokLast.expired <=>
                    (expiry.zero \/ tokLast.now + refreshSkew >= expiry.at)
            /\ tokLast.tried <=> (tokLast.expired \/ c.AccessToken = "")

C23_NoSharedCredential ==
    \A h1, h2 \in Handlers :
        (h1 # h2 /\ sharePc[h1] # "idle" /\ sharePc[h2] # "idle") =>
            /\ shareRef[h1] # shareRef[h2]
            /\ shareRef[h1] = shareRef[h2] =>
                   ~(Writes(h1) /\ (Reads(h2) \/ Writes(h2)))

\* ------------------------------------------------------------------------
\* Properties of the thinking budget sent upstream
\* ------------------------------------------------------------------------

\* b lies in the descriptor's [min,max]
InRange(t, b) == t.Min <= b /\ b <= t.Max

\* b clamped to the descriptor's [min,max]
ClampTo(t, b) == IF b < t.Min THEN t.Min ELSE IF b > t.Max THEN t.Max ELSE b

\* the request names no thinking budget in any of its three forms
NoBudgetSupplied ==
    /\ thinkReq.reasoning_effort = <<>>
    /\ thinkReq.thinking_budget = <<>>
    /\ thinkReq.budget_tokens = <<>>

\* the request names a budget as thinking.budget_tokens only
OnlyBudgetTokens ==
    /\ thinkReq.reasoning_effort = <<>>
    /\ thinkReq.thinking_budget = <<>>
    /\ thinkReq.budget_tokens # <<>>

\* C24: an OpenAI request with reasoning_effort e to a thinking-capable
\* model (and no max_tokens) is sent with the table value of e as
\* thinkingBudget when that value is in the model's range (auto: when the
\* model allows a dynamic budget); with e = none no positive budget is sent
\* if the model allows zero, and the default budget is sent if it does not.
C24_EffortBudget ==
    (/\ thinkPc = "sent"
     /\ thinkReq.api = "openai"
     /\ thinkReq.reasoning_effort # <<>>
     /\ thinkReq.max_tokens = <<>>
     /\ ModelSupportsThinking(thinkReq.model)) =>
        LET e == thinkReq.reasoning_effort[1]
            t == ThinkingOf(thinkReq.model)
            v == ReasoningEffortBudgetMapping[e]
            sent == thinkPayload.thinkingBudget
        IN  /\ (e # "none" /\ (InRange(t, v) \/ (v = -1 /\ t.DynamicAllowed)))
                   => sent = <<v>>
            /\ (e = "none" /\ t.ZeroAllowed) => (sent = <<>> \/ sent[1] <= 0)
            /\ (e = "none" /\ ~t.ZeroAllowed)
                   => sent = <<ClampTo(t, DefaultThinkingBudget)>>

\* C25: a request without a thinking budget (and without max_tokens) is
\* sent with thinkingBudget 24576 clamped to the model's range when the
\* model supports thinking, and 512 for gemini-3-flash; a budget the
\* request does supply, within the model's range, is the one sent.
C25_DefaultBudget ==
    (thinkPc = "sent" /\ thinkReq.max_tokens = <<>>) =>
        LET m == thinkReq.model
            sent == thinkPayload.thinkingBudget
        IN  /\ (NoBudgetSupplied /\ m = "gemini-3-flash")
                   => sent = <<ReasoningEffortBudgetMapping["minimal"]>>
            /\ (NoBudgetSupplied /\ ModelSupportsThinking(m))
                   => sent = <<ClampTo(ThinkingOf(m), DefaultThinkingBudget)>>
            /\ (/\ OnlyBudgetTokens
                /\ ModelSupportsThinking(m)
                /\ InRange(ThinkingOf(m), thinkReq.budget_tokens[1]))
                   => sent = thinkReq.budget_tokens

\* C26: a request with thinking budget 512 to a model whose descriptor has
\* min = 1024 is sent without a thinkingConfig.
C26_BelowMinimumStripped ==
    (/\ thinkPc = "sent"
     /\ ModelSupportsThinking(thinkReq.model)
     /\ OnlyBudgetTokens
     /\ thinkReq.budget_tokens = <<512>>) =>
        (ThinkingOf(thinkReq.model).Min = 1024
            => ~HasThinkingConfig(thinkPayload))

\* C27: a payload sent upstream with both a thinkingBudget and a
\* maxOutputTokens has thinkingBudget < maxOutputTokens.
C27_BudgetBelowMaxTokens ==
    (/\ thinkPc = "sent"
     /\ thinkPayload.thinkingBudget # <<>>
     /\ thinkPayload.maxOutputTokens # <<>>) =>
        thinkPayload.thinkingBudget[1] < thinkPayload.maxOutputTokens[1]

\* a Claude request with max_tokens 2000 went out with budget 1999
C27_Witness ==
    /\ thinkPc = "sent"
    /\ thinkReq.max_tokens = <<2000>>
    /\ thinkPayload.maxOutputTokens = <<2000>>
    /\ thinkPayload.thinkingBudget = <<1999>>

\* C28: a payload sent upstream for a thinking-capable model has no
\* thinkingBudget, or one within the descriptor's [min,max], or -1 when the
\* descriptor allows a dynamic budget.
C28_BudgetWithinDescriptor ==
    (/\ thinkPc = "sent"
     /\ ModelSupportsThinking(thinkReq.model)
     /\ thinkPayload.thinkingBudget # <<>>) =>
        LET t == ThinkingOf(thinkReq.model)
            b == thinkPayload.thinkingBudget[1]
        IN  InRange(t, b) \/ (b = -1 /\ t.DynamicAllowed)

\* ------------------------------------------------------------------------
\* Properties of one streaming request
\* ------------------------------------------------------------------------

\* C29: once the request context is cancelled, the reader goroutine ends
\* with the channel closed and the handler returns.
C29_DisconnectDrains ==
    streamCancelled ~>
        (readerPc = "done" /\ chanClosed = 1 /\ handlerPc = "returned")

\* the client left a stream whose upstream had gone silent, and both the
\* reader and the handler ended
C29_Witness ==
    /\ streamCancelled
    /\ streamBody.end = "stall"
    /\ readerPc = "done"
    /\ chanClosed = 1
    /\ handlerPc = "returned"

\* the line is a payload: text that is valid JSON
IsPayloadLine(line) == line.text \in {"json", "usage"}

\* positions of the payload lines among the first n lines of the body
PayloadIds(n) ==
    LET lines == SelectSeq(SubSeq(streamBody.lines, 1, n), IsPayloadLine)
    IN  [i \in 1..Len(lines) |-> lines[i].id]

IsErrChunk(chunk) == chunk.Err
IsDataChunk(chunk) == ~chunk.Err

\* C30: the data chunks the handler received are the payload lines the
\* scanner returned, in the order of the body, each once (the one the
\* reader is still sending excepted); the channel is closed once, when the
\* reader ends; a reader error is one error chunk, the last one received,
\* and the reader ends without one only at the end of the body.
C30_OrderedDelivery ==
    LET data == SelectSeq(handlerGot, IsDataChunk)
        errs == SelectSeq(handlerGot, IsErrChunk)
        scanned == PayloadIds(readerPos)
        inHand == IF readerPc = "send" THEN 1 ELSE 0
    IN  /\ [i \in 1..Len(data) |-> data[i].Data[1].id]
               = SubSeq(scanned, 1, Len(scanned) - inHand)
        /\ chanClosed <= 1
        /\ chanClosed = 1 <=> readerPc = "done"
        /\ Len(errs) <= 1
        /\ Len(errs) = 1 =>
               /\ handlerGot[Len(handlerGot)].Err
               /\ readerPc \in {"close", "done"}
        /\ (readerPc \in {"close", "done"} /\ Len(errs) = 0) =>
               /\ readerPos = Len(streamBody.lines)
               /\ streamBody.end = "eof"

\* a body with a line that is not JSON, a payload line and a read error
\* has been delivered: the payload, then the error chunk, then the close
C30_Witness ==
    /\ chanClosed = 1
    /\ handlerPc = "returned"
    /\ streamBody.end = "error"
    /\ ~streamCancelled
    /\ \E i \in 1..Len(streamBody.lines) : streamBody.lines[i].text = "invalid"
    /\ Len(handlerGot) = 2
    /\ handlerGot[2].Err

\* ------------------------------------------------------------------------
\* Properties of the request translators
\* ------------------------------------------------------------------------

\* the name of the call of the turn that has the given id
NameOfCall(id) ==
    LET k == CHOOSE j \in 1..Len(reqTurn.calls) : reqTurn.calls[j].id = id
    IN  reqTurn.calls[k].name

\* C31: in the Anthropic request translator every tool_result with
\* tool_use_id X becomes a functionResponse with id X and the name of the
\* tool_use block that has id X.
C31_ResultNamedAfterCall ==
    (reqPc = "translated" /\ reqApi = "claude") =>
        LET parts == reqContents[2].parts
        IN  /\ Len(parts) = Len(reqTurn.results)
            /\ \A k \in 1..Len(parts) :
                   /\ parts[k].kind = "functionResponse"
                   /\ parts[k].id = reqTurn.results[k]
                   /\ parts[k].name = NameOfCall(reqTurn.results[k])

\* C32: in the OpenAI request translator an assistant message with
\* tool_calls becomes one model content (the text once, if any, then one
\* functionCall per call) directly followed by one user content with one
\* functionResponse per call, same order, same id, the call's name.
C32_OneModelOneUserContent ==
    (reqPc = "translated" /\ reqApi = "openai" /\ reqTurn.calls # <<>>) =>
        LET calls == reqTurn.calls
            text == IF reqTurn.content # <<>>
                    THEN <<TextPart(reqTurn.content[1])>> ELSE <<>>
        IN  reqContents =
              << ReqContent("model", text \o
                     [k \in 1..Len(calls) |->
                         FunctionCallPart(calls[k].id, calls[k].name)]),
                 ReqContent("user",
                     [k \in 1..Len(calls) |->
                         FunctionResponsePart(calls[k].id, calls[k].name)]) >>

\* ------------------------------------------------------------------------
\* Properties of the OpenAI usage block
\* ------------------------------------------------------------------------

\* the usage block the mapping prescribes for a usageMetadata whose four
\* counters are all present
MappedUsage(meta) ==
    [prompt_tokens |-> <<IntOf(meta.promptTokenCount)
                          + IntOf(meta.thoughtsTokenCount)>>,
     completion_tokens |-> meta.candidatesTokenCount,
     total_tokens |-> meta.totalTokenCount]

UsageCounters(usage) ==
    [prompt_tokens |-> usage.prompt_tokens,
     completion_tokens |-> usage.completion_tokens,
     total_tokens |-> usage.total_tokens]

AllCountersPresent ==
    /\ usageMeta # <<>>
    /\ usageMeta[1].promptTokenCount # <<>>
    /\ usageMeta[1].candidatesTokenCount # <<>>
    /\ usageMeta[1].thoughtsTokenCount # <<>>
    /\ usageMeta[1].totalTokenCount # <<>>

\* C33: for a usageMetadata with all its counters, both OpenAI response
\* translators give prompt_tokens = promptTokenCount + thoughtsTokenCount,
\* completion_tokens = candidatesTokenCount and total_tokens =
\* totalTokenCount, and the usage block of the streaming chunk equals the
\* usage block of the non-streaming document.
C33_SameUsageBlock ==
    (AllCountersPresent /\ usageDone = {"stream", "nonstream"}) =>
        /\ UsageCounters(usageStream) = MappedUsage(usageMeta[1])
        /\ UsageCounters(usageNonStream) = MappedUsage(usageMeta[1])
        /\ usageStream = usageNonStream

\* ------------------------------------------------------------------------
\* Properties of the Anthropic non-streaming document
\* ------------------------------------------------------------------------

\* thinking, then text, then tool_use
BlockRank(type) ==
    IF type = "thinking" THEN 1 ELSE IF type = "text" THEN 2 ELSE 3

\* C34: in content[] of the non-streaming Anthropic document every thinking
\* block comes before every text block and every text block before every
\* tool_use block, whatever the order of the upstream parts.
C34_ThinkingTextToolOrder ==
    docPc = "converted" =>
        \A i, j \in 1..Len(docContent) :
            i < j => BlockRank(docContent[i].type)
                         <= BlockRank(docContent[j].type)

\* ------------------------------------------------------------------------
\* Properties of the deltas of an OpenAI stream
\* ------------------------------------------------------------------------

\* C35: the index values of the tool_calls entries emitted in one OpenAI
\* stream are 0, 1, 2, ... in emission order, without repeat and without
\* gap.
C35_ToolCallIndexesCount ==
    \A k \in 1..Len(deltaIndexes) : deltaIndexes[k] = k - 1

\* C38: the concatenation of delta.content over the emitted chunks is the
\* concatenation of the upstream text parts that are not thoughts, and
\* the concatenation of delta.reasoning_content that of the thought text
\* parts.
C38_NoTextLost ==
    /\ deltaOut.content = deltaUp.content
    /\ deltaOut.reasoning_content = deltaUp.reasoning_content

\* ------------------------------------------------------------------------
\* Properties of the reader's usage filter
\* ------------------------------------------------------------------------

\* the document carries a finishReason that is not empty
Terminal(doc) == doc.fin # <<>> /\ doc.fin[1] # ""

BlockKindOf(deltaType) ==
    CASE deltaType = "text_delta" -> "text"
      [] deltaType = "thinking_delta" -> "thinking"
      [] deltaType = "signature_delta" -> "thinking"
      [] deltaType = "input_json_delta" -> "tool_use"
      [] OTHER -> ""

\* C37: every content_block_delta of an Anthropic stream carries the index
\* of a block that is started and not yet stopped at that moment, and its
\* delta type belongs to the kind of that block.
C37_DeltaInsideOpenBlock ==
    \A k \in 1..Len(claudeWire) :
        LET h == ClaudeBefore(k)
            e == claudeWire[k]
        IN  e.ev = "content_block_delta" =>
                \E o \in h.open : /\ o.index = e.index
                                  /\ o.kind = BlockKindOf(e.arg)

\* ------------------------------------------------------------------------
\* Properties of token refresh in the account pool
\* ------------------------------------------------------------------------

\* C39: in pool mode, once a refresh for an account has succeeded, every
\* later selection of that account returns the refreshed access token and
\* expiry, and no refresh is called for an account while the token last
\* issued for it is still valid.
C39_PoolKeepsRefreshedToken ==
    /\ (rfPc = "selected" /\ rfIssued[rfAccount] # <<>>) =>
           /\ rfCreds.AccessToken = rfIssued[rfAccount][1].AccessToken
           /\ rfCreds.Expired = rfIssued[rfAccount][1].Expired
    /\ ~rfNeedless

====
